---- MODULE Spec2Model ----
(***************************************************************************)
(* Orchestration core of adept: the backoff engine (lib/retry.ts), the     *)
(* execution-handoff codec and the tool guardrails (lib/command-builders   *)
(* .ts) and the executor/repair/presenter pipeline (lib/agent.ts).         *)
(*                                                                         *)
(* Conventions.  An optional value (undefined / null in the source) is a   *)
(* set with at most one element: {} is undefined, {v} is v.  A string that *)
(* the code scans is a sequence of tokens (words, punctuation, " " and     *)
(* "\n"); a string the code only carries is a TLA+ string.                 *)
(***************************************************************************)
EXTENDS Integers, Sequences, FiniteSets, TLC

VARIABLES
    \* ---- withRetry (one call) ----
    opts,        \* the resolved options: maxAttempts, baseDelayMs, maxDelayMs, jitterMs
    rpc,         \* position in withRetry: calling, caught, sleeping, returned, threw
    attempt,     \* the local counter `attempt`
    now,         \* Date.now(), in ms
    lastError,   \* the error caught from the last invocation ({} before any)
    shouldRetry, \* the local `shouldRetry` of the last catch block
    log,         \* ghost: the outcome of every invocation of the operation, in order
    sleeps,      \* ghost: every delay passed to sleep(), in order
    outcome,     \* what withRetry returned or threw ({} while running)
    \* ---- codec round trip (one handoff) ----
    cpc,         \* position: start, formatted, parsed
    chandoff,    \* the handoff given to formatExecutionHandoff
    ctext,       \* the text formatExecutionHandoff returned
    cresult,     \* what parseExecutionHandoff returned for it ({} before)
    \* ---- generateTextResponse (one request) ----
    pc,          \* position: start, parse, repair, parseRepair, finalize, present, returned, threw
    needsBriefing, \* isBriefingRequest(extractLatestUserMessage(input))
    execShape,   \* ghost: how the executor's text was made ({} before)
    repairShape, \* ghost: how the repair text was made ({} before)
    executorText, \* executorResponse.text
    repairText,  \* repairResponse.text
    parseResult, \* the local `parseResult` ({} before the first parse)
    handoff,     \* the local `handoff` ({} is undefined)
    usedRepair,  \* the local `usedRepair`
    finalHandoff, \* the local `finalHandoff` ({} before it is set)
    recorded,    \* what handoffMonitor.record was given ({} before)
    presenterMessages, \* the messages given to the presenter ({} before)
    calls,       \* ghost: the generateText calls made, in order
    thrown,      \* the exception that left generateTextResponse ("" if none)
    \* ---- ToolGuardrails (one instance) ----
    windowMinutes, \* loadConfig().toolRouting?.dedupeWindowMinutes ({} is undefined)
    dedupeCache, \* the Map, as its entries in insertion order
    clock,       \* Date.now() at the latest call
    ncalls,      \* ghost: calls of isDuplicate so far
    accepted,    \* ghost: per workspace, tool and input, the last call that returned false
    lastCall,    \* ghost: the call that just returned ({} before the first)
    \* ---- isToolAllowed (one call) ----
    allowlistByWorkspace, \* loadConfig().toolRouting?.allowlistByWorkspace ({} is undefined)
    gparams,     \* the params given to isToolAllowed ({} before)
    gdecision,   \* what isToolAllowed returned ({} before)
    \* ---- wrapToolExecution: the in-flight calls of the wrapped tools ----
    wcall,       \* per call: its position, params, locals and result
    auditLog,    \* the audit log, as its entries in the order written
    approvals    \* the calls for which a pending approval record exists

retryVars == <<opts, rpc, attempt, now, lastError, shouldRetry, log, sleeps, outcome>>
codecVars == <<cpc, chandoff, ctext, cresult>>
pipeVars == <<pc, needsBriefing, execShape, repairShape, executorText, repairText,
              parseResult, handoff, usedRepair, finalHandoff, recorded,
              presenterMessages, calls, thrown>>

dedupeVars == <<windowMinutes, dedupeCache, clock, ncalls, accepted, lastCall>>

allowVars == <<allowlistByWorkspace, gparams, gdecision>>
wrapVars == <<wcall, auditLog, approvals>>

vars == <<retryVars, codecVars, pipeVars, dedupeVars, allowVars, wrapVars>>

\* a component that is not running
RetryIdle ==
    /\ opts = {} /\ rpc = "idle" /\ attempt = 0 /\ now = 0 /\ lastError = {}
    /\ shouldRetry = FALSE /\ log = <<>> /\ sleeps = <<>> /\ outcome = {}
CodecIdle ==
    /\ cpc = "idle" /\ chandoff = {} /\ ctext = <<>> /\ cresult = {}

PipeIdle ==
    /\ pc = "idle" /\ needsBriefing = FALSE /\ execShape = {} /\ repairShape = {}
    /\ executorText = <<>> /\ repairText = <<>> /\ parseResult = {} /\ handoff = {}
    /\ usedRepair = FALSE /\ finalHandoff = {} /\ recorded = {}
    /\ presenterMessages = {} /\ calls = <<>> /\ thrown = ""

DedupeIdle ==
    /\ windowMinutes = {} /\ dedupeCache = <<>> /\ clock = 0 /\ ncalls = 0
    /\ accepted = {} /\ lastCall = {}

AllowIdle ==
    /\ allowlistByWorkspace = {} /\ gparams = {} /\ gdecision = {}

WrapIdle ==
    /\ wcall = <<>> /\ auditLog = <<>> /\ approvals = {}

notRetryVars == <<codecVars, pipeVars, dedupeVars, allowVars, wrapVars>>
notCodecVars == <<retryVars, pipeVars, dedupeVars, allowVars, wrapVars>>
notPipeVars == <<retryVars, codecVars, dedupeVars, allowVars, wrapVars>>
notDedupeVars == <<retryVars, codecVars, pipeVars, allowVars, wrapVars>>
notAllowVars == <<retryVars, codecVars, pipeVars, dedupeVars, wrapVars>>

Some(o) == CHOOSE x \in o : TRUE
Min(a, b) == IF a <= b THEN a ELSE b
Max(a, b) == IF a >= b THEN a ELSE b
Last(s) == s[Len(s)]

RECURSIVE Pow2(_)
Pow2(n) == IF n <= 0 THEN 1 ELSE 2 * Pow2(n - 1)

\* Math.ceil(a / b) for a >= 0, b > 0
CeilDiv(a, b) == (a + b - 1) \div b

(***************************************************************************)
(* Backoff engine                                                          *)
(***************************************************************************)

\* ---- bounds of the model ----
MaxAttemptsBound == 3
MaxJitterMs == 2

RETRYABLE_STATUS == {408, 429, 500, 502, 503, 504}
RETRYABLE_CODES == {"ECONNRESET", "ETIMEDOUT", "EAI_AGAIN", "ENOTFOUND"}

\* String.prototype.toLowerCase on the header names the model draws from
LowerName(name) ==
    CASE name = "Retry-After" -> "retry-after"
      [] name = "X-RateLimit-Remaining" -> "x-ratelimit-remaining"
      [] name = "X-RateLimit-Reset" -> "x-ratelimit-reset"
      [] OTHER -> name

\* Number(value) on the header values the model draws from: {} is NaN
NumberOf(value) ==
    CASE value = "0" -> {0}
      [] value = "1" -> {1}
      [] value = "3" -> {3}
      [] value = "4" -> {4}
      [] value = "5" -> {5}
      [] OTHER -> {}

\* Date.parse(value) on the header values the model draws from: {} is NaN
DateParse(value) ==
    CASE value = "Thu, 01 Jan 1970 00:00:05 GMT" -> {5000}
      [] OTHER -> {}

\* An error is [status, statusCode, code, headers]; headers is a set of
\* <<name, value>> pairs with at most one pair per lower-cased name.
getStatusCode(error) ==
    IF error.status # {} THEN error.status ELSE error.statusCode

getErrorCode(error) == error.code

\* normalizeHeaders / getHeaders: the value under a lower-cased name
Header(error, lname) ==
    {p[2] : p \in {q \in error.headers : LowerName(q[1]) = lname}}

parseRetryAfterMs(value, t) ==
    IF value = {} \/ value = {""} THEN {}
    ELSE IF NumberOf(Some(value)) # {}
         THEN {Max(0, Some(NumberOf(Some(value))) * 1000)}
    ELSE IF DateParse(Some(value)) # {}
         THEN {Max(0, Some(DateParse(Some(value))) - t)}
    ELSE {}

parseRateLimitResetMs(value, t) ==
    IF value = {} \/ value = {""} THEN {}
    ELSE IF NumberOf(Some(value)) = {} THEN {}
    ELSE {Max(0, Some(NumberOf(Some(value))) * 1000 - t)}

\* mutant: every 403 counts as a rate limit, whatever the remaining header
isRateLimitErrorAny403(status, error) == status = {429} \/ status = {403}

isRateLimitError(status, error) ==
    \/ status = {429}
    \/ status = {403} /\ Header(error, "x-ratelimit-remaining") = {"0"}

\* mutant: every failure that carries an HTTP status is retried
ShouldRetryAnyStatus(error) ==
    getStatusCode(error) # {} \/ getErrorCode(error) \cap RETRYABLE_CODES # {}

ShouldRetry(error) ==
    \/ isRateLimitError(getStatusCode(error), error)
    \/ getStatusCode(error) # {} /\ Some(getStatusCode(error)) \in RETRYABLE_STATUS
    \/ getErrorCode(error) # {} /\ Some(getErrorCode(error)) \in RETRYABLE_CODES

\* retryAfter ?? resetAfter
ServerHint(error, t) ==
    IF parseRetryAfterMs(Header(error, "retry-after"), t) # {}
    THEN parseRetryAfterMs(Header(error, "retry-after"), t)
    ELSE parseRateLimitResetMs(Header(error, "x-ratelimit-reset"), t)

\* mutant: the attempt test is off by one
GiveUpLate(error, att, o) == ~ShouldRetry(error) \/ att > o.maxAttempts

\* line 157: give up on this failure
GiveUp(error, att, o) == ~ShouldRetry(error) \/ att >= o.maxAttempts

\* mutant: the rate-limit error whatever the length of the server's wait
TerminalErrorAnyWait(error, t, o) ==
    LET delayMs == ServerHint(error, t) IN
    IF isRateLimitError(getStatusCode(error), error) /\ delayMs # {}
    THEN [kind |-> "IntegrationRateLimitError",
          retryAfterSeconds |-> CeilDiv(Some(delayMs), 1000)]
    ELSE [kind |-> "error", error |-> error]

\* lines 158-171: what is thrown when giving up
TerminalError(error, t, o) ==
    LET delayMs == ServerHint(error, t) IN
    IF /\ isRateLimitError(getStatusCode(error), error)
       /\ delayMs # {} /\ Some(delayMs) # 0 /\ Some(delayMs) > o.maxDelayMs
    THEN [kind |-> "IntegrationRateLimitError",
          retryAfterSeconds |-> CeilDiv(Some(delayMs), 1000)]
    ELSE [kind |-> "error", error |-> error]

\* mutant: the exponent is the attempt number, not attempt - 1
BackoffOffByOne(att, o) == Min(o.maxDelayMs, o.baseDelayMs * Pow2(att))

\* line 174
Backoff(att, o) == Min(o.maxDelayMs, o.baseDelayMs * Pow2(att - 1))

\* Math.floor(Math.random() * jitterMs)
Jitters(o) == IF o.jitterMs = 0 THEN {0} ELSE 0 .. (o.jitterMs - 1)

\* mutant: no cap on the delay
DelayMsUncapped(error, att, t, o, jitter) ==
    LET hint == ServerHint(error, t)
        base == IF hint # {} THEN Some(hint) ELSE Backoff(att, o)
    IN base + jitter

\* lines 175-176
DelayMs(error, att, t, o, jitter) ==
    LET hint == ServerHint(error, t)
        base == IF hint # {} THEN Some(hint) ELSE Backoff(att, o)
    IN Min(o.maxDelayMs, base + jitter)

\* ---- the inputs the model draws from ----
HeaderSets ==
    { {},
      {<<"retry-after", "0">>},
      {<<"Retry-After", "3">>},
      {<<"retry-after", "1">>},
      {<<"retry-after", "soon">>, <<"x-ratelimit-reset", "4">>},
      {<<"retry-after", "Thu, 01 Jan 1970 00:00:05 GMT">>},
      {<<"X-RateLimit-Reset", "5">>},
      {<<"X-RateLimit-Remaining", "0">>},
      {<<"x-ratelimit-remaining", "0">>, <<"retry-after", "3">>},
      {<<"x-ratelimit-remaining", "5">>} }

Errors ==
    [status : {{403}, {429}, {503}}, statusCode : {{}},
     code : {{}}, headers : HeaderSets]
    \cup [status : {{}, {403}, {404}}, statusCode : {{}},
          code : {{}, {"ECONNRESET"}, {"EACCES"}}, headers : {{}}]
    \cup [status : {{}}, statusCode : {{429}, {400}},
          code : {{}}, headers : {{}, {<<"Retry-After", "3">>}}]

Values == {"ok", "ok2"}

Options ==
    [maxAttempts : 1 .. MaxAttemptsBound, baseDelayMs : {1, 1500},
     maxDelayMs : {2000}, jitterMs : {0, MaxJitterMs}]

\* ghost: what the claims say about an error, from its fields alone
TransientNoHints(e) ==
    /\ e.status = {} /\ e.statusCode = {} /\ e.headers = {}
    /\ e.code \in {{"ECONNRESET"}, {"ETIMEDOUT"}, {"EAI_AGAIN"}, {"ENOTFOUND"}}
RateLimited429(e, seconds) ==
    /\ e.status = {429} /\ e.code = {}
    /\ \E p \in e.headers : LowerName(p[1]) = "retry-after" /\ p[2] = seconds
    /\ Cardinality(e.headers) = 1
ZeroRemaining(e) ==
    \E p \in e.headers : LowerName(p[1]) = "x-ratelimit-remaining" /\ p[2] = "0"
StatusOf(e) == IF e.status # {} THEN e.status ELSE e.statusCode
NonRetryable(e) ==
    /\ StatusOf(e) # {429}
    /\ ~(StatusOf(e) = {403} /\ ZeroRemaining(e))
    /\ StatusOf(e) \cap {408, 429, 500, 502, 503, 504} = {}
    /\ e.code \cap {"ECONNRESET", "ETIMEDOUT", "EAI_AGAIN", "ENOTFOUND"} = {}
Tag(e) ==
    CASE TransientNoHints(e) -> "transient"
      [] RateLimited429(e, "0") -> "rl0"
      [] RateLimited429(e, "3") -> "rlBig"
      [] NonRetryable(e) -> "nonRetryable"
      [] OTHER -> "other"

RetryInit ==
    /\ CodecIdle /\ PipeIdle /\ DedupeIdle /\ AllowIdle /\ WrapIdle
    /\ opts \in Options
    /\ rpc = "calling"
    /\ attempt = 0
    /\ now = 1000
    /\ lastError = {}
    /\ shouldRetry = FALSE
    /\ log = <<>>
    /\ sleeps = <<>>
    /\ outcome = {}

\* line 143: the operation is invoked and resolves
InvokeOk ==
    /\ rpc = "calling"
    /\ \E v \in Values :
        /\ log' = Append(log, [ok |-> TRUE, value |-> v])
        /\ outcome' = {[kind |-> "value", value |-> v]}
    /\ rpc' = "returned"
    /\ UNCHANGED <<opts, attempt, now, lastError, shouldRetry, sleeps, notRetryVars>>

\* lines 143-144: the operation is invoked and rejects
InvokeFail ==
    /\ rpc = "calling"
    /\ \E e \in Errors :
        /\ lastError' = {e}
        /\ log' = Append(log, [ok |-> FALSE, tag |-> Tag(e)])
    /\ rpc' = "caught"
    /\ UNCHANGED <<opts, attempt, now, shouldRetry, sleeps, outcome, notRetryVars>>

\* lines 145-189: the catch block, up to the throw or the call of sleep
Catch ==
    /\ rpc = "caught"
    /\ LET error == Some(lastError)
           att == attempt + 1
       IN /\ attempt' = att
          /\ shouldRetry' = ShouldRetry(error)
          /\ IF GiveUp(error, att, opts)
             THEN /\ rpc' = "threw"
                  /\ outcome' = {TerminalError(error, now, opts)}
                  /\ UNCHANGED sleeps
             ELSE \E jitter \in Jitters(opts) :
                    LET delayMs == DelayMs(error, att, now, opts, jitter) IN
                    IF isRateLimitError(getStatusCode(error), error)
                       /\ delayMs > opts.maxDelayMs
                    THEN /\ rpc' = "threw"
                         /\ outcome' = {[kind |-> "IntegrationRateLimitError",
                                         retryAfterSeconds |-> CeilDiv(delayMs, 1000)]}
                         /\ UNCHANGED sleeps
                    ELSE /\ rpc' = "sleeping"
                         /\ sleeps' = Append(sleeps, delayMs)
                         /\ UNCHANGED outcome
    /\ UNCHANGED <<opts, now, lastError, log, notRetryVars>>

\* line 189: the sleep ends and the loop invokes the operation again
Wake ==
    /\ rpc = "sleeping"
    /\ now' = now + Last(sleeps)
    /\ rpc' = "calling"
    /\ UNCHANGED <<opts, attempt, lastError, shouldRetry, log, sleeps, outcome, notRetryVars>>

RetryNext == InvokeOk \/ InvokeFail \/ Catch \/ Wake

RetrySpec == RetryInit /\ [][RetryNext]_vars

(***************************************************************************)
(* Claims about the backoff engine (checked under RetrySpec)               *)
(***************************************************************************)
Transient == [ok |-> FALSE, tag |-> "transient"]
RateLimitZero == [ok |-> FALSE, tag |-> "rl0"]
RateLimitBig == [ok |-> FALSE, tag |-> "rlBig"]
Handled == rpc # "caught"
Waiting == rpc \in {"sleeping", "calling"}
IsRateLimitOutcome == outcome # {} /\ Some(outcome).kind = "IntegrationRateLimitError"

\* C1 (as claimed): a first failure with HTTP 429 and Retry-After: 3 (3 s, more
\* than maxDelayMs = 2000 ms), with maxAttempts >= 2, makes withRetry throw the
\* terminal rate-limit error at once: one invocation, no sleep.
C1_EscalatesOnFirstFailure ==
    (/\ opts.maxAttempts >= 2 /\ 3 * 1000 > opts.maxDelayMs
     /\ Len(log) >= 1 /\ log[1] = RateLimitBig
     /\ ~(Len(log) = 1 /\ rpc = "caught"))
    => (rpc = "threw" /\ IsRateLimitOutcome /\ Len(log) = 1 /\ sleeps = <<>>)

\* C2: with jitterMs = 0 and maxAttempts >= 3, an operation that fails twice
\* with a transient code and no hint headers and then succeeds is invoked
\* exactly three times, withRetry sleeps min(maxDelayMs, baseDelayMs) and then
\* min(maxDelayMs, 2 * baseDelayMs), and returns the success value.
C2_BackoffDeterminism ==
    LET d1 == Min(opts.maxDelayMs, opts.baseDelayMs)
        d2 == Min(opts.maxDelayMs, 2 * opts.baseDelayMs)
    IN (opts.jitterMs = 0 /\ opts.maxAttempts >= 3 /\ Handled) =>
        /\ log = <<Transient>> => (Waiting /\ sleeps = <<d1>>)
        /\ log = <<Transient, Transient>> => (Waiting /\ sleeps = <<d1, d2>>)
        /\ (Len(log) = 3 /\ SubSeq(log, 1, 2) = <<Transient, Transient>> /\ log[3].ok)
            => /\ rpc = "returned"
               /\ outcome = {[kind |-> "value", value |-> log[3].value]}
               /\ sleeps = <<d1, d2>>

C2_Witness ==
    /\ opts.jitterMs = 0 /\ opts.maxAttempts >= 3 /\ opts.baseDelayMs = 1500
    /\ Len(log) = 3 /\ SubSeq(log, 1, 2) = <<Transient, Transient>> /\ log[3].ok
    /\ rpc = "returned" /\ sleeps = <<1500, 2000>>

\* C3: the operation is invoked at most maxAttempts times and never after a
\* success; withRetry returns the first success value; retryable failures
\* (transient code, or 429 with Retry-After 0) before attempt maxAttempts are
\* followed by another invocation; a failure of invocation maxAttempts is
\* thrown without a further sleep.
C3_AttemptBound ==
    /\ Len(log) <= opts.maxAttempts
    /\ \A i \in 1 .. Len(log) - 1 : ~log[i].ok
    /\ (Len(log) >= 1 /\ Last(log).ok)
        => (rpc = "returned" /\ outcome = {[kind |-> "value", value |-> Last(log).value]})
    /\ rpc = "returned" => (Len(log) >= 1 /\ Last(log).ok)
    /\ (/\ Handled /\ Len(log) >= 1 /\ Len(log) < opts.maxAttempts
        /\ \A i \in 1 .. Len(log) : log[i] \in {Transient, RateLimitZero})
        => (Waiting /\ Len(sleeps) = Len(log))
    /\ (Handled /\ Len(log) = opts.maxAttempts /\ ~Last(log).ok)
        => (rpc = "threw" /\ Len(sleeps) = opts.maxAttempts - 1)

C3_Witness ==
    /\ opts.maxAttempts = 3 /\ rpc = "returned" /\ Len(log) = 3
    /\ log[1] = RateLimitZero /\ log[2] = Transient /\ Len(sleeps) = 2

ClaimedRetryable(e) ==
    \/ StatusOf(e) = {429}
    \/ StatusOf(e) = {403} /\ ZeroRemaining(e)
    \/ StatusOf(e) \cap {408, 429, 500, 502, 503, 504} # {}
    \/ e.code \cap {"ECONNRESET", "ETIMEDOUT", "EAI_AGAIN", "ENOTFOUND"} # {}

C21_DelayBound ==
    \A i \in 1 .. Len(sleeps) :
        sleeps[i] >= 0 /\ sleeps[i] <= opts.maxDelayMs + opts.jitterMs

\* withRetry sleeps after a failure whose Retry-After (3 s) is longer than
\* maxDelayMs and that is not rate-limit classified
C21_Witness ==
    /\ rpc = "sleeping" /\ opts.jitterMs > 0
    /\ Some(lastError).status = {503}
    /\ Some(lastError).headers = {<<"Retry-After", "3">>}
    /\ ServerHint(Some(lastError), now) = {3000}
    /\ Last(sleeps) <= opts.maxDelayMs

\* h of the delay formula: the server hint when there is one, else
\* baseDelayMs * 2^(k-1) after the k-th failure
HintOrExponential ==
    IF ServerHint(Some(lastError), now) # {} THEN Some(ServerHint(Some(lastError), now))
    ELSE opts.baseDelayMs * Pow2(attempt - 1)

\* C22: the delay slept after the k-th failure is min(maxDelayMs, h) + j for
\* the jitter j drawn, the jitter being added after the cap: before the
\* sleep every jitter that can be drawn can give its delay
\* min(maxDelayMs, h) + j, and the delay slept is one of these.
C22_DelayFormula ==
    /\ rpc = "sleeping" =>
          \E j \in Jitters(opts) :
              Last(sleeps) = Min(opts.maxDelayMs, HintOrExponential) + j
    /\ (rpc = "caught" /\ ENABLED (Catch /\ rpc' = "sleeping")) =>
          \A j \in Jitters(opts) :
              ENABLED (/\ Catch
                       /\ rpc' = "sleeping"
                       /\ Last(sleeps') = Min(opts.maxDelayMs,
                              IF ServerHint(Some(lastError), now) # {}
                              THEN Some(ServerHint(Some(lastError), now))
                              ELSE opts.baseDelayMs * Pow2(attempt)) + j)

Lower(tok) ==
    CASE tok = "EXECUTION_HANDOFF" -> "execution_handoff"
      [] tok = "EXECUTION" -> "execution"
      [] tok = "HANDOFF" -> "handoff"
      [] tok = "Status" -> "status"
      [] tok = "STATUS" -> "status"
      [] tok = "Plan" -> "plan"
      [] tok = "Actions" -> "actions"
      [] tok = "ACTIONS" -> "actions"
      [] tok = "Data" -> "data"
      [] tok = "Errors" -> "errors"
      [] tok = "Verification" -> "verification"
      [] tok = "Missing" -> "missing"
      [] tok = "Follow-up" -> "follow-up"
      [] tok = "Follow" -> "follow"
      [] tok = "Draft" -> "draft"
      [] tok = "None" -> "none"
      [] tok = "NONE" -> "none"
      [] tok = "Done" -> "done"
      [] tok = "DONE" -> "done"
      [] tok = "Blocked" -> "blocked"
      [] tok = "Planning" -> "planning"
      [] tok = "GitHub" -> "github"
      [] tok = "Salesforce" -> "salesforce"
      [] OTHER -> tok

\* the tokens made only of characters of [A-Za-z\- ] (line 391)
LabelTokens ==
    {" ", "-", "EXECUTION", "HANDOFF", "execution", "handoff",
     "Status", "STATUS", "status", "Plan", "plan", "Actions", "ACTIONS", "actions",
     "Data", "data", "Errors", "errors", "Verification", "verification",
     "Missing", "missing", "Follow-up", "follow-up", "Follow", "follow", "up",
     "followup", "Draft", "draft", "None", "NONE", "none", "Done", "DONE", "done",
     "Blocked", "blocked", "Planning", "planning", "bogus", "x", "y", "z"}

\* the characters of the class at line 316, as the file has them: - * and
\* the three characters U+00E2, U+20AC, U+00A2 (the bullet glyph U+2022 is
\* not among them); a non-ASCII character is a token named by its code point
BulletTokens == {"-", "*", "U+00E2", "U+20AC", "U+00A2"}

SECTION_KEYS ==
    (<<"actions">> :> "actions") @@ (<<"data">> :> "data") @@ (<<"errors">> :> "errors")
    @@ (<<"missing">> :> "missing") @@ (<<"follow-up">> :> "followUp")
    @@ (<<"follow", " ", "up">> :> "followUp") @@ (<<"followup">> :> "followUp")
    @@ (<<"draft">> :> "draft")

REQUIRED_SECTIONS == <<"actions", "data", "errors", "missing", "followUp", "draft">>

\* z.enum at line 273
SchemaStatuses == {"done", "needs_info", "blocked"}

RECURSIVE DropSpaces(_)
DropSpaces(line) ==
    IF line # <<>> /\ Head(line) = " " THEN DropSpaces(Tail(line)) ELSE line

RECURSIVE DropTrailingSpaces(_)
DropTrailingSpaces(line) ==
    IF line # <<>> /\ line[Len(line)] = " "
    THEN DropTrailingSpaces(SubSeq(line, 1, Len(line) - 1)) ELSE line

\* String.prototype.trim
Trim(line) == DropTrailingSpaces(DropSpaces(line))

LowerSeq(line) == [i \in 1 .. Len(line) |-> Lower(line[i])]

\* raw.split(/\r?\n/)
RECURSIVE SplitLines(_, _)
SplitLines(text, current) ==
    IF text = <<>> THEN <<current>>
    ELSE IF Head(text) = "\n" THEN <<current>> \o SplitLines(Tail(text), <<>>)
    ELSE SplitLines(Tail(text), Append(current, Head(text)))

\* array.join('\n')
RECURSIVE JoinLines(_)
JoinLines(lines) ==
    IF lines = <<>> THEN <<>>
    ELSE IF Len(lines) = 1 THEN Head(lines)
    ELSE Head(lines) \o <<"\n">> \o JoinLines(Tail(lines))

normalizeSectionLabel(label) == LowerSeq(Trim(label))

\* line.replace(/^[-*...]\s*/, '').trim()
stripBullet(line) ==
    IF line # <<>> /\ Head(line) \in BulletTokens
    THEN Trim(DropSpaces(Tail(line))) ELSE Trim(line)

isNone(value) == LowerSeq(Trim(value)) = <<"none">>

\* /^EXECUTION[_ ]HANDOFF/i.test(line.trim())
IsHeaderLine(line) ==
    LET t == LowerSeq(Trim(line)) IN
    \/ Len(t) >= 1 /\ t[1] = "execution_handoff"
    \/ Len(t) >= 3 /\ t[1] = "execution" /\ t[2] = " " /\ t[3] = "handoff"

\* lines.findIndex(...): 0 when no line matches
RECURSIVE FindHeader(_, _)
FindHeader(lines, i) ==
    IF i > Len(lines) THEN 0
    ELSE IF IsHeaderLine(lines[i]) THEN i
    ELSE FindHeader(lines, i + 1)

\* line.match(/^Status:\s*(.+)$/i) on a trimmed line: {} or {group 1}
StatusMatch(line) ==
    IF Len(line) >= 3 /\ Lower(line[1]) = "status" /\ line[2] = ":"
    THEN {SubSeq(line, 3, Len(line))} ELSE {}

RECURSIVE FirstColon(_, _)
FirstColon(line, i) ==
    IF i > Len(line) THEN 0
    ELSE IF line[i] = ":" THEN i
    ELSE FirstColon(line, i + 1)

\* line.match(/^([A-Za-z\- ]+):\s*(.*)$/) on a trimmed line: {} or {<<group 1, group 2>>}
SectionMatch(line) ==
    LET c == FirstColon(line, 1) IN
    IF c >= 2 /\ \A i \in 1 .. c - 1 : line[i] \in LabelTokens
    THEN {<<SubSeq(line, 1, c - 1), DropSpaces(SubSeq(line, c + 1, Len(line)))>>}
    ELSE {}

EmptyAccumulators ==
    [actions |-> <<>>, data |-> <<>>, errors |-> <<>>, missing |-> <<>>,
     followUp |-> {}, draft |-> {}]

appendItem(section, item, acc) ==
    IF item = <<>> THEN acc
    ELSE IF isNone(item) THEN acc
    ELSE IF section \in {"followUp", "draft"}
         THEN [acc EXCEPT ![section] =
                 IF acc[section] # {} /\ Some(acc[section]) # <<>>
                 THEN {Some(acc[section]) \o <<"\n">> \o item} ELSE {item}]
    ELSE [acc EXCEPT ![section] = Append(acc[section], item)]

ScanInit ==
    [status |-> {}, currentSection |-> {}, sectionsSeen |-> {},
     accumulators |-> EmptyAccumulators, errors |-> <<>>]

\* lines 376-412: one iteration of the scan loop
ScanLine(rawLine, st) ==
    LET line == Trim(rawLine) IN
    IF line = <<>> THEN st
    ELSE IF StatusMatch(line) # {}
    THEN LET candidate == LowerSeq(Trim(Some(StatusMatch(line)))) IN
         IF candidate \in {<<"done">>, <<"needs_info">>, <<"blocked">>}
         THEN [st EXCEPT !.status = {candidate[1]}, !.currentSection = {}]
         ELSE [st EXCEPT !.errors = Append(@, [msg |-> "Invalid status",
                                               arg |-> Trim(Some(StatusMatch(line)))]),
                         !.currentSection = {}]
    ELSE IF /\ SectionMatch(line) # {}
            /\ normalizeSectionLabel(Some(SectionMatch(line))[1]) \in DOMAIN SECTION_KEYS
    THEN LET section == SECTION_KEYS[normalizeSectionLabel(Some(SectionMatch(line))[1])]
             inline == Trim(Some(SectionMatch(line))[2])
         IN [st EXCEPT !.currentSection = {section},
                       !.sectionsSeen = @ \cup {section},
                       !.accumulators = IF inline # <<>>
                                        THEN appendItem(section, inline, @) ELSE @]
    ELSE IF st.currentSection = {} THEN st
    ELSE LET item == stripBullet(line) IN
         IF item = <<>> THEN st
         ELSE [st EXCEPT !.accumulators = appendItem(Some(st.currentSection), item, @)]

RECURSIVE Scan(_, _, _)
Scan(lines, i, st) ==
    IF i > Len(lines) THEN st ELSE Scan(lines, i + 1, ScanLine(lines[i], st))

\* ExecutionHandoffSchema.safeParse(handoff): the issues
SchemaIssues(h) ==
    IF h.status \in SchemaStatuses THEN <<>>
    ELSE <<[msg |-> "Invalid enum value", arg |-> <<h.status>>]>>

\* a parser that never reports a missing section
MissingSectionsNone(required, seen) == <<>>

RECURSIVE MissingSections(_, _)
MissingSections(required, seen) ==
    IF required = <<>> THEN <<>>
    ELSE (IF Head(required) \in seen THEN <<>> ELSE <<Head(required)>>)
         \o MissingSections(Tail(required), seen)

parseExecutionHandoff(raw) ==
    LET lines == SplitLines(raw, <<>>)
        startIndex == FindHeader(lines, 1)
    IN IF startIndex = 0
       THEN [ok |-> FALSE, handoff |-> {},
             errors |-> <<[msg |-> "Missing EXECUTION_HANDOFF header.", arg |-> <<>>]>>,
             missingFields |-> <<"header">>]
       ELSE LET st == Scan(lines, startIndex + 1, ScanInit)
                missingFields == (IF st.status = {} THEN <<"status">> ELSE <<>>)
                                 \o MissingSections(REQUIRED_SECTIONS, st.sectionsSeen)
                parsed == [status |-> IF st.status = {} THEN "blocked" ELSE Some(st.status),
                           actions |-> st.accumulators.actions,
                           data |-> st.accumulators.data,
                           errors |-> st.accumulators.errors,
                           missing |-> st.accumulators.missing,
                           followUp |-> st.accumulators.followUp,
                           draft |-> st.accumulators.draft,
                           raw |-> raw]
                errors == st.errors \o SchemaIssues(parsed)
            IN [ok |-> errors = <<>> /\ missingFields = <<>>,
                handoff |-> {parsed},
                errors |-> errors,
                missingFields |-> missingFields]

formatList(items) ==
    IF Len(items) > 0
    THEN JoinLines([i \in 1 .. Len(items) |-> <<"-", " ">> \o items[i]])
    ELSE <<"-", " ", "none">>

formatOptional(value) ==
    IF value # {} /\ Some(value) # <<>> THEN <<"-", " ">> \o Some(value)
    ELSE <<"-", " ", "none">>

formatExecutionHandoff(h) ==
    JoinLines(<<
        <<"EXECUTION_HANDOFF">>,
        <<"Status", ":", " ", h.status>>,
        <<"Actions", ":">>, formatList(h.actions),
        <<"Data", ":">>, formatList(h.data),
        <<"Errors", ":">>, formatList(h.errors),
        <<"Missing", ":">>, formatList(h.missing),
        <<"Follow-up", ":">>, formatOptional(h.followUp),
        <<"Draft", ":">>, formatOptional(h.draft) >>)

buildFallbackHandoff(reason, followUp) ==
    [status |-> "blocked",
     actions |-> <<>>,
     data |-> <<>>,
     errors |-> <<reason>>,
     missing |-> <<<<"executor_handoff_format">>>>,
     followUp |-> IF followUp # {} THEN followUp
                  ELSE {<<"Could you restate the request or provide more detail?">>},
     draft |-> {},
     raw |-> <<>>]

\* ---- the round trip of one handoff ----
MaxItems == 1

Statuses == {"done", "needs_info", "blocked", "planning"}

Items == {<<"x">>, <<"z", ":", " ", "y">>, <<"None">>, <<"none">>}

RECURSIVE SeqsUpTo(_, _)
SeqsUpTo(S, n) ==
    IF n = 0 THEN {<<>>}
    ELSE LET shorter == SeqsUpTo(S, n - 1)
         IN shorter \cup {Append(q, x) : q \in {r \in shorter : Len(r) = n - 1}, x \in S}

ItemLists == SeqsUpTo(Items, MaxItems)
Scalars == {{}} \cup {{i} : i \in {<<"x">>, <<"x", "\n", "y">>}}

Handoffs ==
    [status : Statuses, actions : ItemLists, data : ItemLists, errors : ItemLists,
     missing : ItemLists, followUp : Scalars, draft : Scalars, raw : {<<>>}]

CodecInit ==
    /\ RetryIdle /\ PipeIdle /\ DedupeIdle /\ AllowIdle /\ WrapIdle
    /\ cpc = "start"
    /\ chandoff \in {{h} : h \in Handoffs}
    /\ ctext = <<>>
    /\ cresult = {}

Format ==
    /\ cpc = "start"
    /\ ctext' = formatExecutionHandoff(Some(chandoff))
    /\ cpc' = "formatted"
    /\ UNCHANGED <<chandoff, cresult, notCodecVars>>

Parse ==
    /\ cpc = "formatted"
    /\ cresult' = {parseExecutionHandoff(ctext)}
    /\ cpc' = "parsed"
    /\ UNCHANGED <<chandoff, ctext, notCodecVars>>

CodecNext == Format \/ Parse

CodecSpec == CodecInit /\ [][CodecNext]_vars

\* ---- the parse of one executor text ----
\* the section labels an executor writes, in the order of the prompt
SectionLabels ==
    <<"Plan", "Actions", "Data", "Errors", "Verification", "Missing", "Follow-up", "Draft">>

Reverse(q) == [i \in 1 .. Len(q) |-> q[Len(q) + 1 - i]]

\* the texts drawn: a header line or none, a Status line or none before or
\* after the sections, the sections in the prompt's order or in the reverse
\* order, all of them or some left out, each with a bullet, with the none
\* marker, with nothing, or with an inline value
ParseShapes ==
    [header : {"none", "underscore", "space"},
     status : {"absent", "done", "DONE", "needs_info", "blocked", "planning", "Planning",
               "bogus"},
     statusLast : BOOLEAN,
     reversed : BOOLEAN,
     omitted : {{}, {"Actions"}, {"Data"}, {"Errors"}, {"Missing"}, {"Follow-up"}, {"Draft"},
                {"Plan", "Verification"}, {"Plan"}},
     body : {"bullet", "none", "empty", "inline"}]

\* the lines of one section
SectionLines(label, body) ==
    CASE body = "bullet" -> << <<label, ":">>, <<"-", " ", "x", label>> >>
      [] body = "none" -> << <<label, ":">>, <<"-", " ", "none">> >>
      [] body = "empty" -> << <<label, ":">> >>
      [] body = "inline" -> << <<label, ":", " ", "x", label>> >>

RECURSIVE SectionsText(_, _, _)
SectionsText(labels, omitted, body) ==
    IF labels = <<>> THEN <<>>
    ELSE (IF Head(labels) \in omitted THEN <<>> ELSE SectionLines(Head(labels), body))
         \o SectionsText(Tail(labels), omitted, body)

ParseTextOf(shape) ==
    LET headerLines == CASE shape.header = "none" -> <<>>
                         [] shape.header = "underscore" -> << <<"EXECUTION_HANDOFF">> >>
                         [] shape.header = "space" -> << <<"execution", " ", "handoff">> >>
        statusLines == IF shape.status = "absent" THEN <<>>
                       ELSE << <<"Status", ":", " ", shape.status>> >>
        sections == SectionsText(IF shape.reversed THEN Reverse(SectionLabels)
                                 ELSE SectionLabels, shape.omitted, shape.body)
    IN JoinLines(headerLines
                 \o (IF shape.statusLast THEN sections \o statusLines
                     ELSE statusLines \o sections))

ParseInit ==
    /\ RetryIdle /\ PipeIdle /\ DedupeIdle /\ AllowIdle /\ WrapIdle
    /\ cpc = "formatted"
    /\ chandoff = {}
    /\ ctext \in {ParseTextOf(shape) : shape \in ParseShapes}
    /\ cresult = {}

ParseNext == Parse

ParseSpec == ParseInit /\ [][ParseNext]_vars

(***************************************************************************)
(* Claims about the codec (checked under CodecSpec)                        *)
(***************************************************************************)
\* an item that is the "none" marker in some spelling
NoneMarker(item) == LowerSeq(item) = <<"none">>

RECURSIVE NoNoneMarker(_)
NoNoneMarker(items) ==
    items = <<>> \/ (~NoneMarker(Head(items)) /\ NoNoneMarker(Tail(items)))

\* C6 (as claimed): for a handoff with a valid status whose items and scalar
\* fields are strings other than "none" (in any spelling of the marker),
\* parsing the formatted handoff is ok and gives back the same status, the
\* same lists in the same order, and the same followUp and draft.
C6_RoundTrip ==
    (cpc = "parsed"
     /\ LET h == Some(chandoff) IN
        /\ h.status \in {"done", "needs_info", "blocked", "planning"}
        /\ NoNoneMarker(h.actions) /\ NoNoneMarker(h.data)
        /\ NoNoneMarker(h.errors) /\ NoNoneMarker(h.missing)
        /\ (h.followUp = {} \/ ~NoneMarker(Some(h.followUp)))
        /\ (h.draft = {} \/ ~NoneMarker(Some(h.draft))))
    => LET h == Some(chandoff)
           r == Some(cresult)
       IN /\ r.ok
          /\ r.handoff # {}
          /\ Some(r.handoff).status = h.status
          /\ Some(r.handoff).actions = h.actions
          /\ Some(r.handoff).data = h.data
          /\ Some(r.handoff).errors = h.errors
          /\ Some(r.handoff).missing = h.missing
          /\ Some(r.handoff).followUp = h.followUp
          /\ Some(r.handoff).draft = h.draft

(***************************************************************************)
(* Orchestration pipeline: generateTextResponse                            *)
(***************************************************************************)

\* ---- the texts the executor model may return ----
Shapes ==
    [header : BOOLEAN,
     status : {"absent", "done", "needs_info", "blocked", "planning", "bogus"},
     drop : {"none", "actions", "draft"},
     full : BOOLEAN]

\* the executor's output format (lines 56-73), without the header line when
\* shape.header is false, without the Status line when status is absent,
\* without the section shape.drop, and with the Plan and Verification
\* sections when shape.full
TextOf(shape) ==
    JoinLines(
        (IF shape.header THEN << <<"EXECUTION_HANDOFF">> >> ELSE << <<"x", " ", "y">> >>)
     \o (IF shape.status = "absent" THEN <<>>
         ELSE << <<"Status", ":", " ", shape.status>> >>)
     \o (IF shape.full THEN << <<"Plan", ":">>, <<"-", " ", "x">> >> ELSE <<>>)
     \o (IF shape.drop = "actions" THEN <<>>
         ELSE << <<"Actions", ":">>, <<"-", " ", "x">> >>)
     \o << <<"Data", ":">>, <<"-", " ", "none">>, <<"Errors", ":">>, <<"-", " ", "none">> >>
     \o (IF shape.full THEN << <<"Verification", ":">>, <<"-", " ", "y">> >> ELSE <<>>)
     \o << <<"Missing", ":">>, <<"-", " ", "none">>, <<"Follow-up", ":">>, <<"-", " ", "z">> >>
     \o (IF shape.drop = "draft" THEN <<>>
         ELSE << <<"Draft", ":">>, <<"-", " ", "none">> >>))

\* Array.from(new Set(items))
RECURSIVE Unique(_, _)
Unique(items, seen) ==
    IF items = <<>> THEN <<>>
    ELSE IF Head(items) \in seen THEN Unique(Tail(items), seen)
    ELSE <<Head(items)>> \o Unique(Tail(items), seen \cup {Head(items)})

\* buildPresenterDirective: reads handoff.plan.length and
\* handoff.verification.length first (lines 131-133), which throws a
\* TypeError when the handoff object has no such property
buildPresenterDirective(h) ==
    IF ~({"plan", "verification"} \subseteq DOMAIN h)
    THEN [threw |-> "TypeError"]
    ELSE [threw |-> "",
          status |-> h.status,
          hasFollowUp |-> h.followUp # {} /\ Trim(Some(h.followUp)) # <<>>,
          hasPlan |-> Len(h.plan) > 0,
          hasVerification |-> Len(h.verification) > 0,
          draft |-> IF h.status = "done" THEN h.draft ELSE {}]

\* buildPresenterMessages, after the base messages
buildPresenterMessages(h) ==
    LET directive == buildPresenterDirective(h) IN
    IF directive.threw # "" THEN [threw |-> directive.threw]
    ELSE [threw |-> "", assistant |-> formatExecutionHandoff(h), user |-> directive]

PipeInit ==
    /\ RetryIdle /\ CodecIdle /\ DedupeIdle /\ AllowIdle /\ WrapIdle
    /\ pc = "start"
    /\ needsBriefing \in BOOLEAN
    /\ execShape = {} /\ repairShape = {}
    /\ executorText = <<>> /\ repairText = <<>>
    /\ parseResult = {} /\ handoff = {} /\ usedRepair = FALSE
    /\ finalHandoff = {} /\ recorded = {} /\ presenterMessages = {}
    /\ calls = <<>> /\ thrown = ""

\* lines 362-372: the executor phase returns its text, one of the texts given
RunExecutorOf(shapes) ==
    /\ pc = "start"
    /\ \E shape \in shapes :
        /\ execShape' = {shape}
        /\ executorText' = TextOf(shape)
    /\ calls' = Append(calls, "executor")
    /\ pc' = "parse"
    /\ UNCHANGED <<needsBriefing, repairShape, repairText, parseResult, handoff,
                   usedRepair, finalHandoff, recorded, presenterMessages, thrown,
                   notPipeVars>>

RunExecutor == RunExecutorOf(Shapes)

\* lines 374-378
ParseExecutor ==
    /\ pc = "parse"
    /\ LET result == parseExecutionHandoff(executorText) IN
        /\ parseResult' = {result}
        /\ handoff' = result.handoff
        /\ pc' = IF result.ok THEN "finalize" ELSE "repair"
    /\ usedRepair' = FALSE
    /\ UNCHANGED <<needsBriefing, execShape, repairShape, executorText, repairText,
                   finalHandoff, recorded, presenterMessages, calls, thrown,
                   notPipeVars>>

\* lines 380-385: the executor model is asked to reformat, without tools
RunRepairOf(shapes) ==
    /\ pc = "repair"
    /\ \E shape \in shapes :
        /\ repairShape' = {shape}
        /\ repairText' = TextOf(shape)
    /\ calls' = Append(calls, "repair")
    /\ pc' = "parseRepair"
    /\ UNCHANGED <<needsBriefing, execShape, executorText, parseResult, handoff,
                   usedRepair, finalHandoff, recorded, presenterMessages, thrown,
                   notPipeVars>>

RunRepair == RunRepairOf(Shapes)

\* lines 386-400
ParseRepair ==
    /\ pc = "parseRepair"
    /\ LET repaired == parseExecutionHandoff(repairText)
           first == Some(parseResult)
       IN IF repaired.ok
          THEN /\ parseResult' = {repaired}
               /\ handoff' = repaired.handoff
          ELSE /\ parseResult' =
                    {[ok |-> FALSE,
                      errors |-> first.errors \o repaired.errors,
                      missingFields |->
                          Unique(first.missingFields \o repaired.missingFields, {}),
                      handoff |-> repaired.handoff]}
               /\ handoff' = {buildFallbackHandoff(
                                 <<"Execution handoff could not be parsed.">>, {})}
    /\ usedRepair' = TRUE
    /\ pc' = "finalize"
    /\ UNCHANGED <<needsBriefing, execShape, repairShape, executorText, repairText,
                   finalHandoff, recorded, presenterMessages, calls, thrown,
                   notPipeVars>>

\* lines 403-414
Finalize ==
    /\ pc = "finalize"
    /\ LET final == IF handoff # {} THEN Some(handoff)
                    ELSE buildFallbackHandoff(<<"Execution handoff missing.">>, {})
       IN /\ finalHandoff' = {final}
          /\ recorded' = {[parsed |-> Some(parseResult).ok,
                           missingFields |-> Some(parseResult).missingFields,
                           status |-> final.status,
                           blockedReasons |-> IF final.status = "blocked"
                                              THEN {final.missing} ELSE {}]}
    /\ pc' = "present"
    /\ UNCHANGED <<needsBriefing, execShape, repairShape, executorText, repairText,
                   parseResult, handoff, usedRepair, presenterMessages, calls, thrown,
                   notPipeVars>>

\* lines 416-437: the presenter messages are built and the presenter phase runs
Present ==
    /\ pc = "present"
    /\ LET messages == buildPresenterMessages(Some(finalHandoff)) IN
       IF messages.threw # ""
       THEN /\ thrown' = messages.threw
            /\ pc' = "threw"
            /\ UNCHANGED <<presenterMessages, calls>>
       ELSE /\ presenterMessages' =
                 {[assistant |-> messages.assistant, user |-> messages.user,
                   briefing |-> needsBriefing /\ Some(finalHandoff).status = "done"]}
            /\ calls' = Append(calls, "presenter")
            /\ pc' = "returned"
            /\ UNCHANGED thrown
    /\ UNCHANGED <<needsBriefing, execShape, repairShape, executorText, repairText,
                   parseResult, handoff, usedRepair, finalHandoff, recorded,
                   notPipeVars>>

\* lines 362, 380: generateText rejects (provider or network failure)
ModelFails ==
    /\ pc \in {"start", "repair"}
    /\ calls' = Append(calls, IF pc = "start" THEN "executor" ELSE "repair")
    /\ thrown' = "ModelError"
    /\ pc' = "threw"
    /\ UNCHANGED <<needsBriefing, execShape, repairShape, executorText, repairText,
                   parseResult, handoff, usedRepair, finalHandoff, recorded,
                   presenterMessages, notPipeVars>>

Next ==
    \/ RunExecutor \/ ParseExecutor \/ RunRepair \/ ParseRepair
    \/ Finalize \/ Present \/ ModelFails

Spec == PipeInit /\ [][Next]_vars

(***************************************************************************)
(* Orchestration pipeline: claims                                          *)
(***************************************************************************)

\* the malformed outputs: no header line, a status line that is absent or
\* names no status, or a required section left out
Malformed(shape) ==
    \/ ~shape.header
    \/ shape.status \in {"absent", "bogus"}
    \/ shape.drop # "none"

HandoffFixed == pc \in {"present", "returned", "threw"} /\ finalHandoff # {}

BothMalformed ==
    /\ execShape # {} /\ Malformed(Some(execShape))
    /\ repairShape # {} /\ Malformed(Some(repairShape))

\* C7: when the executor's output is malformed and the repair output is
\* malformed too, the final handoff is the fallback, whatever the two texts
\* held: status blocked, no actions, no data, exactly one error message,
\* missing = [executor_handoff_format], a non-empty follow-up, no draft.
C7_FallbackGuarantee ==
    (HandoffFixed /\ BothMalformed) =>
        LET h == Some(finalHandoff) IN
        /\ h.status = "blocked"
        /\ h.actions = <<>> /\ h.data = <<>>
        /\ h.errors = << <<"Execution handoff could not be parsed.">> >>
        /\ h.missing = << <<"executor_handoff_format">> >>
        /\ h.followUp # {} /\ Trim(Some(h.followUp)) # <<>>
        /\ h.draft = {}
        /\ h.raw = <<>>

\* an executor output that only lacks the Actions section, a repair output
\* that has no header, and the final handoff fixed
C7_Witness ==
    /\ HandoffFixed /\ BothMalformed
    /\ Some(execShape).header /\ Some(execShape).status = "done"
    /\ Some(execShape).drop = "actions"
    /\ ~Some(repairShape).header
    /\ usedRepair

\* C8 (as claimed): once the final handoff is fixed it has a status among
\* done, needs_info, blocked and planning and every field of ExecutionHandoff
\* (plan, actions, data, errors, verification, missing), and building the
\* presenter directive from it does not throw.
C8_PresenterHandoffWellFormed ==
    (pc \in {"returned", "threw"} /\ finalHandoff # {}) =>
        /\ Some(finalHandoff).status \in {"done", "needs_info", "blocked", "planning"}
        /\ {"plan", "actions", "data", "errors", "verification", "missing"}
               \subseteq DOMAIN Some(finalHandoff)
        /\ thrown # "TypeError"

Count(phase) == Cardinality({i \in 1 .. Len(calls) : calls[i] = phase})

\* C9 (as claimed): the model calls of a request are executor, then at most
\* one repair, then the presenter; a repair happens only after a failed first
\* parse; the presenter starts only once the final handoff is fixed; and a
\* request whose model calls all succeeded has started the presenter exactly
\* once.
C9_PhaseOrder ==
    /\ calls \in {<<>>, <<"executor">>, <<"executor", "repair">>,
                  <<"executor", "presenter">>,
                  <<"executor", "repair", "presenter">>}
    /\ Count("repair") > 0 =>
           ~parseExecutionHandoff(TextOf(Some(execShape))).ok
    /\ Count("presenter") > 0 => finalHandoff # {}
    /\ Count("executor") + Count("repair") <= 2
    /\ (pc \in {"returned", "threw"} /\ thrown # "ModelError") =>
           Count("presenter") = 1

(***************************************************************************)
(* Tool guardrails: ToolGuardrails.isDuplicate                             *)
(***************************************************************************)

MaxCalls == 3
\* 1500 in the source; scaled down so that the eviction loop runs
MAX_DEDUPE_ENTRIES == 2

\* ---- JSON values ----
Num(n) == [t |-> "num", v |-> n]
Arr(items) == [t |-> "arr", items |-> items]
\* an object is its properties in insertion order, each <<key, value>>
Obj(fields) == [t |-> "obj", fields |-> fields]

\* String order of the property names in use
KeyRank(key) ==
    CASE key = "a" -> 1 [] key = "allowDuplicate" -> 2 [] key = "b" -> 3
      [] key = "c" -> 4 [] key = "d" -> 5 [] key = "force" -> 6
      [] key = "input" -> 7 [] key = "toolName" -> 8 [] key = "value" -> 9

KeyBefore(f, g) == KeyRank(f[1]) < KeyRank(g[1])

RECURSIVE Join(_, _)
Join(parts, sep) ==
    IF parts = <<>> THEN <<>>
    ELSE IF Len(parts) = 1 THEN Head(parts)
    ELSE Head(parts) \o <<sep>> \o Join(Tail(parts), sep)

\* JSON.stringify without the replacer: properties in insertion order
RECURSIVE stableStringifyUnsorted(_)
stableStringifyUnsorted(value) ==
    CASE value.t = "num" -> <<ToString(value.v)>>
      [] value.t = "arr" ->
            <<"[">> \o Join([i \in 1 .. Len(value.items) |->
                                stableStringifyUnsorted(value.items[i])], ",")
                    \o <<"]">>
      [] value.t = "obj" ->
            <<"{">> \o Join([i \in 1 .. Len(value.fields) |->
                                <<value.fields[i][1], ":">>
                                \o stableStringifyUnsorted(value.fields[i][2])], ",")
                    \o <<"}">>

\* the replacer rebuilds every non-array object with its keys sorted
RECURSIVE stableStringify(_)
stableStringify(value) ==
    CASE value.t = "num" -> <<ToString(value.v)>>
      [] value.t = "arr" ->
            <<"[">> \o Join([i \in 1 .. Len(value.items) |->
                                stableStringify(value.items[i])], ",")
                    \o <<"]">>
      [] value.t = "obj" ->
            LET sorted == SortSeq(value.fields, KeyBefore) IN
            <<"{">> \o Join([i \in 1 .. Len(sorted) |->
                                <<sorted[i][1], ":">> \o stableStringify(sorted[i][2])], ",")
                    \o <<"}">>

getDedupeWindowMs(minutes) ==
    Max(IF minutes = {} THEN 60 ELSE Some(minutes), 1) * 60 * 1000

\* the text that is hashed; the SHA-256 digest is taken to be injective
DedupeKey(workspaceId, toolName, input) ==
    <<IF workspaceId = {} THEN "global" ELSE Some(workspaceId), ":", toolName, ":">>
    \o stableStringify(input)

\* Map.get
CacheGet(cache, key) == {cache[i].timestamp : i \in {j \in 1 .. Len(cache) : cache[j].key = key}}

\* Map.set: an existing key keeps its place in the iteration order
CacheSet(cache, key, t) ==
    IF \E i \in 1 .. Len(cache) : cache[i].key = key
    THEN [i \in 1 .. Len(cache) |->
             IF cache[i].key = key THEN [key |-> key, timestamp |-> t] ELSE cache[i]]
    ELSE Append(cache, [key |-> key, timestamp |-> t])

\* the eviction loop: visited holds the entries already passed and kept
RECURSIVE Evict(_, _, _, _)
Evict(visited, rest, t, windowMs) ==
    IF rest = <<>> THEN visited
    ELSE LET kept == IF t - Head(rest).timestamp > windowMs
                     THEN visited ELSE Append(visited, Head(rest))
         IN IF Len(kept) + Len(Tail(rest)) <= MAX_DEDUPE_ENTRIES
            THEN kept \o Tail(rest)
            ELSE Evict(kept, Tail(rest), t, windowMs)

\* mutant: a duplicate hit refreshes the timestamp of its key
isDuplicateRefreshing(cache, workspaceId, toolName, input, t, minutes) ==
    LET windowMs == getDedupeWindowMs(minutes)
        key == DedupeKey(workspaceId, toolName, input)
        previous == CacheGet(cache, key)
    IN IF previous # {} /\ Some(previous) # 0 /\ t - Some(previous) < windowMs
       THEN [result |-> TRUE, cache |-> CacheSet(cache, key, t)]
       ELSE LET stored == CacheSet(cache, key, t) IN
            [result |-> FALSE,
             cache |-> IF Len(stored) > MAX_DEDUPE_ENTRIES
                       THEN Evict(<<>>, stored, t, windowMs) ELSE stored]

\* isDuplicate: the value returned and the cache it leaves
isDuplicate(cache, workspaceId, toolName, input, t, minutes) ==
    LET windowMs == getDedupeWindowMs(minutes)
        key == DedupeKey(workspaceId, toolName, input)
        previous == CacheGet(cache, key)
    IN IF previous # {} /\ Some(previous) # 0 /\ t - Some(previous) < windowMs
       THEN [result |-> TRUE, cache |-> cache]
       ELSE LET stored == CacheSet(cache, key, t) IN
            [result |-> FALSE,
             cache |-> IF Len(stored) > MAX_DEDUPE_ENTRIES
                       THEN Evict(<<>>, stored, t, windowMs) ELSE stored]

\* ---- the calls made ----
InputA == Obj(<< <<"a", Num(1)>>,
                 <<"b", Obj(<< <<"c", Arr(<<Num(1), Num(2)>>)>>, <<"d", Num(2)>> >>)>> >>)
\* InputA with its keys written in another order at both depths
InputA2 == Obj(<< <<"b", Obj(<< <<"d", Num(2)>>, <<"c", Arr(<<Num(1), Num(2)>>)>> >>)>>,
                  <<"a", Num(1)>> >>)
\* InputA with the array reversed
InputB == Obj(<< <<"a", Num(1)>>,
                 <<"b", Obj(<< <<"c", Arr(<<Num(2), Num(1)>>)>>, <<"d", Num(2)>> >>)>> >>)

CallParams ==
    << [workspaceId |-> {}, toolName |-> "create_issue", input |-> InputA],
       [workspaceId |-> {}, toolName |-> "create_issue", input |-> InputA2],
       [workspaceId |-> {}, toolName |-> "create_issue", input |-> InputB],
       [workspaceId |-> {"T1"}, toolName |-> "create_issue", input |-> InputA],
       [workspaceId |-> {}, toolName |-> "create_pr", input |-> InputA] >>

\* the time between two calls, in ms: together they reach one ms short of,
\* and exactly, one minute and sixty minutes
Gaps == {0, 1, 59999, 3599999}

\* ghost: the same JSON value, whatever the order of the keys of its objects
RECURSIVE SameJson(_, _)
SameJson(x, y) ==
    /\ x.t = y.t
    /\ CASE x.t = "num" -> x.v = y.v
         [] x.t = "arr" -> /\ Len(x.items) = Len(y.items)
                           /\ \A i \in 1 .. Len(x.items) : SameJson(x.items[i], y.items[i])
         [] x.t = "obj" ->
               /\ Len(x.fields) = Len(y.fields)
               /\ \A i \in 1 .. Len(x.fields) : \E j \in 1 .. Len(y.fields) :
                      /\ x.fields[i][1] = y.fields[j][1]
                      /\ SameJson(x.fields[i][2], y.fields[j][2])

\* ghost: the two calls are of the same workspace, tool and input
SameCall(c, d) ==
    /\ c.workspaceId = d.workspaceId
    /\ c.toolName = d.toolName
    /\ SameJson(c.input, d.input)

DedupeInit ==
    /\ RetryIdle /\ CodecIdle /\ PipeIdle /\ AllowIdle /\ WrapIdle
    /\ windowMinutes \in {{}, {0}, {1}}
    /\ dedupeCache = <<>>
    /\ clock = 1000
    /\ ncalls = 0
    /\ accepted = {} /\ lastCall = {}

\* one call of isDuplicate, Date.now() having advanced by gap since the last
IsDuplicate ==
    /\ ncalls < MaxCalls
    /\ \E n \in 1 .. Len(CallParams), gap \in Gaps :
        LET call == CallParams[n]
            t == clock + gap
            r == isDuplicate(dedupeCache, call.workspaceId, call.toolName, call.input,
                             t, windowMinutes)
            prior == {a \in accepted : SameCall(a.call, call)}
        IN /\ clock' = t
           /\ dedupeCache' = r.cache
           /\ lastCall' = {[call |-> call, at |-> t, result |-> r.result,
                            prior |-> prior]}
           /\ accepted' =
                 IF r.result
                 THEN {IF a \in prior THEN [a EXCEPT !.dups = 1] ELSE a : a \in accepted}
                 ELSE (accepted \ prior) \cup {[call |-> call, at |-> t, dups |-> 0]}
    /\ ncalls' = ncalls + 1
    /\ UNCHANGED <<windowMinutes, notDedupeVars>>

DedupeNext == IsDuplicate

DedupeSpec == DedupeInit /\ [][DedupeNext]_vars

(***************************************************************************)
(* Tool guardrails: claims                                                 *)
(***************************************************************************)

\* the dedupe window in ms: 60 minutes unless configured, and never less
\* than one minute
WindowMs ==
    IF windowMinutes = {} THEN 60 * 60000 ELSE Max(Some(windowMinutes), 1) * 60000

\* C10: a call of isDuplicate returns false when no call of the same
\* workspace, tool and input (keys in any order at any depth, arrays in the
\* same order) was accepted before; it returns true when it comes less than
\* the window after the accepted call; and it returns false again when the
\* window has elapsed since the accepted call.
C10_DedupWindow ==
    \A c \in lastCall :
        /\ c.prior = {} => ~c.result
        /\ \A a \in c.prior :
              /\ c.at - a.at < WindowMs => c.result
              /\ c.at - a.at >= WindowMs => ~c.result

\* under the default window, a call accepted exactly 60 minutes after the
\* accepted call of the same input written in another key order, a duplicate
\* having been refused in between
C10_Witness ==
    /\ windowMinutes = {}
    /\ \E c \in lastCall : \E a \in c.prior :
          /\ ~c.result
          /\ c.at - a.at = 3600000
          /\ a.dups = 1
          /\ a.call.input # c.call.input

\* the timestamp the cache holds for the key of a call ({} if none)
StoredFor(cache, call) ==
    CacheGet(cache, DedupeKey(call.workspaceId, call.toolName, call.input))

\* C24: a call of isDuplicate that returns true leaves the cache as it was,
\* so the timestamp of its key stays that of the accepted call; a call that
\* returns false sets the timestamp of its key to the current time.
C24_DuplicateLeavesCache ==
    [][\A c \in lastCall' :
          /\ c.result => (/\ dedupeCache' = dedupeCache
                          /\ \A a \in c.prior : StoredFor(dedupeCache', c.call) = {a.at})
          /\ ~c.result => StoredFor(dedupeCache', c.call) = {c.at}]_vars

\* two duplicates in a row after the accepted call, the second one later
\* than the first: the key still has the time of the accepted call
C24_Witness ==
    /\ ncalls = 3
    /\ \E c \in lastCall : \E a \in c.prior :
          /\ c.result /\ a.dups = 1 /\ c.at > a.at
          /\ StoredFor(dedupeCache, c.call) = {a.at}
          /\ Len(dedupeCache) = 1

\* C25: after every call of isDuplicate the cache holds at most
\* MAX_DEDUPE_ENTRIES entries.
C25_CacheBounded == Len(dedupeCache) <= MAX_DEDUPE_ENTRIES

(***************************************************************************)
(* Tool guardrails: isToolAllowed, shouldDedupe                            *)
(***************************************************************************)

\* a tool name, an integration id and an allow-list entry are sequences of
\* tokens, cut so that every prefix in play ends at a token boundary; "*" is
\* always a token of its own
ALWAYS_ALLOWED_TOOLS ==
    { <<"tool_registry_search">>, <<"tool_registry_execute">>, <<"get_current_time">> }

\* what may follow create[_-]? in the two patterns
DEDUPE_PATTERNS ==
    << { <<"issue">>, <<"ticket">>, <<"bug">> },
       { <<"pr">>, <<"pull", "request">>, <<"pull", "_", "request">>,
         <<"pull", "-", "request">>, <<"merge", "request">>,
         <<"merge", "_", "request">>, <<"merge", "-", "request">> } >>

\* the tokens of word, ignoring case, stand in name from position i on
SubAt(name, i, word) ==
    /\ i + Len(word) - 1 <= Len(name)
    /\ \A k \in 1 .. Len(word) : Lower(name[i + k - 1]) = word[k]

\* a pattern anchored at the start of the name
PatternTestAnchored(words, toolName) ==
    /\ Lower(toolName[1]) = "create"
    /\ \E word \in words :
          \/ SubAt(toolName, 2, word)
          \/ /\ 2 <= Len(toolName)
             /\ toolName[2] \in {"_", "-"}
             /\ SubAt(toolName, 3, word)

\* pattern.test(toolName): the pattern matches anywhere in the name
PatternTest(words, toolName) ==
    \E i \in 1 .. Len(toolName) :
        /\ Lower(toolName[i]) = "create"
        /\ \E word \in words :
              \/ SubAt(toolName, i + 1, word)
              \/ /\ i + 1 <= Len(toolName)
                 /\ toolName[i + 1] \in {"_", "-"}
                 /\ SubAt(toolName, i + 2, word)

shouldDedupe(toolName) ==
    IF toolName \in ALWAYS_ALLOWED_TOOLS THEN FALSE
    ELSE \E p \in 1 .. Len(DEDUPE_PATTERNS) : PatternTest(DEDUPE_PATTERNS[p], toolName)

normalizeList(values) ==
    LET list == IF values = {} THEN <<>> ELSE Some(values)
        trimmed == [i \in 1 .. Len(list) |-> Trim(list[i])]
    IN SelectSeq(trimmed, LAMBDA entry : entry # <<>>)

\* cfg is toolRouting?.allowlistByWorkspace: {} or a map from workspace ids
\* (and "*") to lists of entries
getAllowlist(workspaceId, cfg) ==
    IF cfg = {} THEN <<>>
    ELSE LET allowlist == Some(cfg) IN
         IF workspaceId # {} /\ Some(workspaceId) \in DOMAIN allowlist
         THEN normalizeList({allowlist[Some(workspaceId)]})
         ELSE IF "*" \in DOMAIN allowlist THEN normalizeList({allowlist["*"]})
         ELSE <<>>

StartsWith(name, prefix) ==
    Len(prefix) <= Len(name) /\ SubSeq(name, 1, Len(prefix)) = prefix

\* the loop body without the lowercasing of the entry
EntryAllowsCaseSensitive(entry, normalizedTool, normalizedIntegration) ==
    \/ entry = normalizedTool
    \/ /\ normalizedIntegration # {} /\ Some(normalizedIntegration) # <<>>
       /\ entry = Some(normalizedIntegration)
    \/ /\ entry # <<>> /\ Last(entry) = "*"
       /\ StartsWith(normalizedTool, SubSeq(entry, 1, Len(entry) - 1))

\* one round of the loop at lines 213-220
EntryAllows(entry, normalizedTool, normalizedIntegration) ==
    LET normalizedEntry == LowerSeq(entry) IN
    \/ normalizedEntry = normalizedTool
    \/ /\ normalizedIntegration # {} /\ Some(normalizedIntegration) # <<>>
       /\ normalizedEntry = Some(normalizedIntegration)
    \/ /\ normalizedEntry # <<>> /\ Last(normalizedEntry) = "*"
       /\ StartsWith(normalizedTool, SubSeq(normalizedEntry, 1, Len(normalizedEntry) - 1))

isToolAllowed(workspaceId, toolName, integrationId, cfg) ==
    IF workspaceId = {} \/ workspaceId = {""} THEN [allowed |-> TRUE, reason |-> {}]
    ELSE IF toolName \in ALWAYS_ALLOWED_TOOLS THEN [allowed |-> TRUE, reason |-> {}]
    ELSE LET allowlist == getAllowlist(workspaceId, cfg)
             normalizedTool == LowerSeq(toolName)
             normalizedIntegration == {LowerSeq(id) : id \in integrationId}
         IN IF Len(allowlist) = 0 THEN [allowed |-> TRUE, reason |-> {}]
            ELSE IF \E i \in 1 .. Len(allowlist) :
                        EntryAllows(allowlist[i], normalizedTool, normalizedIntegration)
            THEN [allowed |-> TRUE, reason |-> {}]
            ELSE [allowed |-> FALSE,
                  reason |-> {<<"Tool ">> \o toolName
                              \o <<" is not allowed for workspace ", Some(workspaceId), ".">>}]

\* ---- one call of isToolAllowed ----
GetDeal == <<"salesforce", "_", "get", "_", "deal">>

AllowParams ==
    [workspaceId : {{}, {"T1"}, {"T2"}},
     call : { [toolName |-> GetDeal, integrationId |-> {<<"salesforce">>}],
              [toolName |-> <<"Salesforce", "_", "get", "_", "deal">>, integrationId |-> {}],
              [toolName |-> <<"github", "_", "search", "_", "issue", "s">>,
               integrationId |-> {<<"github">>}],
              [toolName |-> <<"get_current_time">>, integrationId |-> {<<"get">>}] }]

\* the lists a workspace may be given
EntryLists ==
    { <<>>,
      << <<"salesforce", "_", "*">> >>,
      << <<"GitHub">> >>,
      << GetDeal >>,
      << <<" ", "salesforce", "_", "*", " ">> >>,
      << <<" ">> >>,
      << <<"github", "_", "*">>, <<"Salesforce">> >> }

\* allowlistByWorkspace: undefined, or lists for T1 and for "*", either of
\* which may be left out
AllowConfigs ==
    {{}} \cup { {cfg} : cfg \in [{"T1", "*"} -> EntryLists] }
         \cup { {cfg} : cfg \in [{"T1"} -> EntryLists] }
         \cup { {cfg} : cfg \in [{"*"} -> EntryLists] }

AllowInit ==
    /\ RetryIdle /\ CodecIdle /\ PipeIdle /\ DedupeIdle /\ WrapIdle
    /\ allowlistByWorkspace \in AllowConfigs
    /\ gparams \in {{params} : params \in AllowParams}
    /\ gdecision = {}

IsToolAllowed ==
    /\ gdecision = {}
    /\ gdecision' = {isToolAllowed(Some(gparams).workspaceId, Some(gparams).call.toolName,
                                   Some(gparams).call.integrationId, allowlistByWorkspace)}
    /\ UNCHANGED <<allowlistByWorkspace, gparams, notAllowVars>>

AllowNext == IsToolAllowed

AllowSpec == AllowInit /\ [][AllowNext]_vars

\* ---- claims about isToolAllowed ----
\* the list resolved for the workspace: its own list, else the "*" list,
\* else empty
ResolvedList ==
    IF allowlistByWorkspace = {} THEN <<>>
    ELSE LET lists == Some(allowlistByWorkspace)
             ws == Some(gparams).workspaceId
         IN IF ws # {} /\ Some(ws) \in DOMAIN lists THEN lists[Some(ws)]
            ELSE IF "*" \in DOMAIN lists THEN lists["*"]
            ELSE <<>>

\* the same list with each entry trimmed and the blank entries dropped
ResolvedListTrimmed ==
    SelectSeq([i \in 1 .. Len(ResolvedList) |-> Trim(ResolvedList[i])],
              LAMBDA entry : entry # <<>>)

\* the allow-list decision as the claim words it, for the list given
AllowedBy(list) ==
    LET tool == Some(gparams).call.toolName
        integration == Some(gparams).call.integrationId
    IN \/ Some(gparams).workspaceId = {}
       \/ tool \in { <<"tool_registry_search">>, <<"tool_registry_execute">>,
                     <<"get_current_time">> }
       \/ list = <<>>
       \/ \E i \in 1 .. Len(list) :
             \/ LowerSeq(list[i]) = LowerSeq(tool)
             \/ \E id \in integration : LowerSeq(list[i]) = LowerSeq(id)
             \/ /\ list[i] # <<>> /\ Last(list[i]) = "*"
                /\ Len(list[i]) - 1 <= Len(tool)
                /\ LowerSeq(SubSeq(list[i], 1, Len(list[i]) - 1))
                       = LowerSeq(SubSeq(tool, 1, Len(list[i]) - 1))

\* C12 (as claimed): isToolAllowed allows exactly when no workspace is given,
\* or the tool is always allowed, or the list resolved for the workspace is
\* empty, or an entry of it equals the tool name or the integration id
\* ignoring case, or an entry ending in * is a prefix of the tool name
\* ignoring case; otherwise it denies and gives a reason.
C12_AllowlistAsClaimed ==
    \A decision \in gdecision :
        /\ decision.allowed <=> AllowedBy(ResolvedList)
        /\ ~decision.allowed => decision.reason # {}

\* C12 (amended): the same, the entries of the resolved list being trimmed
\* and its blank entries dropped first.
C12_Allowlist ==
    \A decision \in gdecision :
        /\ decision.allowed <=> AllowedBy(ResolvedListTrimmed)
        /\ ~decision.allowed => decision.reason # {}

\* the list [salesforce_*] of the workspace denies github_search_issues
C12_Witness ==
    /\ gdecision # {} /\ ~Some(gdecision).allowed
    /\ Some(gparams).workspaceId = {"T1"}
    /\ Some(gparams).call.toolName = <<"github", "_", "search", "_", "issue", "s">>
    /\ ResolvedList = << <<"salesforce", "_", "*">> >>

(***************************************************************************)
(* Tool-call wrapper: wrapToolExecution                                    *)
(***************************************************************************)

\* the in-flight calls
Calls == {1, 2}

\* toRecord
toRecord(value) ==
    IF value.t \in {"obj", "arr"} THEN value ELSE Obj(<< <<"value", value>> >>)

\* the values of the property key of an object ({} if it has none)
Prop(object, key) ==
    IF object.t # "obj" THEN {}
    ELSE {object.fields[i][2] : i \in {j \in 1 .. Len(object.fields) :
                                           object.fields[j][1] = key}}

\* Boolean(value) of a JSON value
Truthy(value) == value.t \in {"obj", "arr"} \/ value.v # 0

\* mutant: only the force flag is read
allowDuplicateForceOnly(inputs) ==
    \E value \in Prop(inputs, "force") : Truthy(value)

\* lines 570-572
allowDuplicate(inputs) ==
    \/ \E value \in Prop(inputs, "force") : Truthy(value)
    \/ \E value \in Prop(inputs, "allowDuplicate") : Truthy(value)

\* createToolError: options holds kind, hint and retryAfterSeconds, each {}
\* when not given
createToolError(integrationId, message, options) ==
    [error |-> message,
     errorType |-> options.kind,
     integrationId |-> integrationId,
     hint |-> options.hint,
     retryAfterSeconds |-> options.retryAfterSeconds]

\* isToolErrorResponse
isToolErrorResponse(value) == "error" \in DOMAIN value

\* the four rejections (lines 565, 580, 600, 616)
AllowlistRejection(integrationId, allowlistCheck) ==
    createToolError(integrationId, "Tool not allowed for this workspace.",
        [kind |-> {}, retryAfterSeconds |-> {},
         hint |-> IF allowlistCheck.reason # {} THEN allowlistCheck.reason
                  ELSE {<<"This tool is not permitted in the current workspace.">>}])

DuplicateRejection(integrationId) ==
    createToolError(integrationId, "Duplicate action detected.",
        [kind |-> {}, retryAfterSeconds |-> {},
         hint |-> {<<"A similar create action was recently executed. If this is intentional, retry with ",
                     "force=true", " or adjust the request details.">>}])

RateLimitRejection(integrationId, rateCheck) ==
    createToolError(integrationId,
        IF rateCheck.reason # {} THEN Some(rateCheck.reason) ELSE "Rate limit exceeded",
        [kind |-> {}, retryAfterSeconds |-> rateCheck.retryAfter,
         hint |-> {<<"Slow down and try again after the cooldown window.">>}])

ApprovalRejection(integrationId, gate) ==
    createToolError(integrationId, "Approval required for this action.",
        [kind |-> {}, retryAfterSeconds |-> {},
         hint |-> {<<"Approval gate ", gate, " pending. Use \"approvals\" to review.">>}])

\* ---- the collaborators (not in the source tree) ----
\* rateLimiter.check: allowed, or refused with a reason and a retry-after
RateChecks ==
    { [allowed |-> TRUE, reason |-> {}, retryAfter |-> {}],
      [allowed |-> FALSE, reason |-> {"Too many calls"}, retryAfter |-> {30}] }

\* what the wrapped tool's execute does: resolves with a value, resolves with
\* an error response of its own, or rejects
ToolOutcomes ==
    { [kind |-> "value", value |-> [ok |-> "v"]],
      [kind |-> "value", value |-> [error |-> "upstream failed"]],
      [kind |-> "throw", value |-> [name |-> "Error", message |-> "boom"]] }

\* an append to the audit log; a write that fails appends nothing
AuditAppend(entries, entry, written) ==
    IF written THEN Append(entries, entry) ELSE entries

\* ---- the calls made ----
CreateIssue == <<"github", "_", "create", "_", "issue">>
SearchIssues == <<"github", "_", "search", "_", "issue", "s">>

\* InputA with the override flag
InputAForce == Obj(InputA.fields \o << <<"force", Num(1)>> >>)

\* InputA with a force flag that is falsy and the allowDuplicate flag
InputAAllow == Obj(InputA.fields \o << <<"force", Num(0)>>, <<"allowDuplicate", Num(1)>> >>)

WrapCalls ==
    { [workspaceId |-> {}, toolName |-> CreateIssue, integrationId |-> <<"github">>,
       input |-> InputA],
      [workspaceId |-> {}, toolName |-> CreateIssue, integrationId |-> <<"github">>,
       input |-> InputA2],
      [workspaceId |-> {"global"}, toolName |-> CreateIssue, integrationId |-> <<"github">>,
       input |-> InputA],
      [workspaceId |-> {"T1"}, toolName |-> CreateIssue, integrationId |-> <<"github">>,
       input |-> InputA],
      [workspaceId |-> {}, toolName |-> CreateIssue, integrationId |-> <<"github">>,
       input |-> InputAForce],
      [workspaceId |-> {}, toolName |-> CreateIssue, integrationId |-> <<"github">>,
       input |-> InputAAllow],
      [workspaceId |-> {"T1"}, toolName |-> SearchIssues, integrationId |-> <<"github">>,
       input |-> InputA],
      [workspaceId |-> {}, toolName |-> SearchIssues, integrationId |-> <<"github">>,
       input |-> InputA] }

\* Date.now() at a call, in ms after the previous call: the same ms, or a
\* whole default window later
WrapGaps == {0, 3600000}

\* the workspace T1 may use the tools whose names start with github_create
WrapAllowlist == {"T1" :> << <<"github", "_", "create", "*">> >>}

IdleCall ==
    [pc |-> "idle", params |-> {}, start |-> 0, passedAt |-> {}, rejectedBy |-> "",
     rateCheck |-> {}, requiresApproval |-> {}, callAudited |-> FALSE, ran |-> 0, toolOutcome |-> {},
     telemetry |-> {}, rateRecords |-> 0, resultWrites |-> 0,
     returned |-> {}, threw |-> {}]

\* what no step of the wrapper changes
wrapFrame == <<retryVars, codecVars, pipeVars, windowMinutes, ncalls, accepted, lastCall,
               allowlistByWorkspace, gparams, gdecision>>

WrapInit ==
    /\ RetryIdle /\ CodecIdle /\ PipeIdle
    /\ windowMinutes = {} /\ dedupeCache = <<>> /\ clock = 1000
    /\ ncalls = 0 /\ accepted = {} /\ lastCall = {}
    /\ allowlistByWorkspace = WrapAllowlist /\ gparams = {} /\ gdecision = {}
    /\ wcall = [i \in Calls |-> IdleCall]
    /\ auditLog = <<>>
    /\ approvals = {}

\* lines 551-586: from the call to the first await, for the call given
InvokeWith(i, params, gap) ==
    /\ wcall[i].pc = "idle"
    /\  LET t == clock + gap
            inputs == toRecord(params.input)
            allowlistCheck == isToolAllowed(params.workspaceId, params.toolName,
                                            {params.integrationId}, allowlistByWorkspace)
            checked == ~allowDuplicate(inputs) /\ shouldDedupe(params.toolName)
            duplicate == isDuplicate(dedupeCache, params.workspaceId, params.toolName,
                                     inputs, t, windowMinutes)
            base == [wcall[i] EXCEPT !.params = {params}, !.start = t]
        IN /\ clock' = t
           /\ IF ~allowlistCheck.allowed
              THEN /\ wcall' = [wcall EXCEPT ![i] =
                          [base EXCEPT !.pc = "returned", !.rejectedBy = "allowlist",
                                       !.returned = {AllowlistRejection(params.integrationId,
                                                                       allowlistCheck)}]]
                   /\ UNCHANGED dedupeCache
              ELSE IF checked /\ duplicate.result
              THEN /\ wcall' = [wcall EXCEPT ![i] =
                          [base EXCEPT !.pc = "returned", !.rejectedBy = "duplicate",
                                       !.returned = {DuplicateRejection(params.integrationId)}]]
                   /\ dedupeCache' = duplicate.cache
              ELSE /\ wcall' = [wcall EXCEPT ![i] =
                          [base EXCEPT !.pc = "rateCheck",
                                       !.passedAt = IF checked THEN {t} ELSE {}]]
                   /\ dedupeCache' = IF checked THEN duplicate.cache ELSE dedupeCache
    /\ UNCHANGED <<auditLog, approvals, wrapFrame>>

\* a wrapped tool is called
Invoke(i) == \E params \in WrapCalls, gap \in WrapGaps : InvokeWith(i, params, gap)

\* the wrapper executing the tool without auditing the call first
AfterRateCheckSkipsAudit(rateCheck, requiresApproval) ==
    IF ~rateCheck.allowed THEN "auditRejection"
    ELSE IF requiresApproval THEN "requestApproval"
    ELSE "executing"

\* the wrapper going on to the call whatever the two checks said
AfterRateCheckIgnored(rateCheck, requiresApproval) == "logToolCall"

\* lines 587, 606, 621: where the wrapper goes after the rate-limit check
AfterRateCheck(rateCheck, requiresApproval) ==
    IF ~rateCheck.allowed THEN "auditRejection"
    ELSE IF requiresApproval THEN "requestApproval"
    ELSE "logToolCall"

\* lines 586-587, 606, 621: rateLimiter.check has resolved; requiresApproval
\* is asked only of a call the rate limiter allowed
RateChecked(i) ==
    /\ wcall[i].pc = "rateCheck"
    /\ \E rateCheck \in RateChecks, requiresApproval \in BOOLEAN :
        wcall' = [wcall EXCEPT ![i].rateCheck = {rateCheck},
                               ![i].requiresApproval =
                                   IF rateCheck.allowed THEN {requiresApproval} ELSE {},
                               ![i].pc = AfterRateCheck(rateCheck, requiresApproval)]
    /\ UNCHANGED <<dedupeCache, clock, auditLog, approvals, wrapFrame>>

\* lines 588-603: the rate-limit rejection is audited, then returned
RejectionAudited(i) ==
    /\ wcall[i].pc = "auditRejection"
    /\ \E written \in BOOLEAN :
        auditLog' = AuditAppend(auditLog,
                                [kind |-> "result", call |-> i, success |-> FALSE], written)
    /\ wcall' = [wcall EXCEPT ![i].pc = "returned", ![i].rejectedBy = "rateLimit",
                              ![i].resultWrites = @ + 1,
                              ![i].returned =
                                  {RateLimitRejection(Some(wcall[i].params).integrationId,
                                                      Some(wcall[i].rateCheck))}]
    /\ UNCHANGED <<dedupeCache, clock, approvals, wrapFrame>>

\* lines 607-618: approvalGates.requestApproval has resolved
ApprovalRequested(i) ==
    /\ wcall[i].pc = "requestApproval"
    /\ approvals' = approvals \cup {i}
    /\ wcall' = [wcall EXCEPT ![i].pc = "returned", ![i].rejectedBy = "approval",
                              ![i].returned =
                                  {ApprovalRejection(Some(wcall[i].params).integrationId,
                                                     "gate")}]
    /\ UNCHANGED <<dedupeCache, clock, auditLog, wrapFrame>>
\* lines 640-646 and 677-680: the success flag and the classified error
OutcomeSuccess(settled) ==
    settled.kind = "value" /\ ~isToolErrorResponse(settled.value)

ErrorPayload(settled) ==
    IF settled.kind = "throw"
    THEN {[type |-> {settled.value.name}, message |-> settled.value.message]}
    ELSE IF isToolErrorResponse(settled.value)
    THEN {[type |-> {}, message |-> settled.value.error]}
    ELSE {}

\* lines 648-663 and 674-692: what the four members of Promise.all record
Telemetry(settled, duration) ==
    { [op |-> "recordUsage", success |-> TRUE, duration |-> 0, error |-> {}],
      [op |-> "rateLimiter.record", success |-> TRUE, duration |-> 0, error |-> {}],
      [op |-> "recordOutcome", success |-> OutcomeSuccess(settled),
       duration |-> duration, error |-> ErrorPayload(settled)],
      [op |-> "logToolResult", success |-> OutcomeSuccess(settled),
       duration |-> duration, error |-> {}] }

\* the catch block re-throwing before it records
AfterExecuteThrowsAtOnce(settled) ==
    IF settled.kind = "throw" THEN "settling" ELSE "recording"

\* the step that follows the settling of execute: both the try block and the
\* catch block await the four records before they leave
AfterExecute(settled) == "recording"

\* the wrapper giving up when the call entry could not be written
AfterCallAuditChecked(written) == IF written THEN "executing" ELSE "returned"

\* lines 621-638: the wrapper does not look at what logToolCall resolved
\* to; it goes on to record the call and to execute the tool
AfterCallAudit(written) == "executing"

\* lines 621-638: logToolCall has resolved; the call is recorded and the
\* tool's execute is invoked
CallAudited(i) ==
    /\ wcall[i].pc = "logToolCall"
    /\ \E written \in BOOLEAN :
        /\ auditLog' = AuditAppend(auditLog,
                                   [kind |-> "call", call |-> i, success |-> TRUE], written)
        /\ wcall' = [wcall EXCEPT
                         ![i].pc = AfterCallAudit(written), ![i].callAudited = TRUE,
                         ![i].ran = IF AfterCallAudit(written) = "executing" THEN @ + 1 ELSE @,
                         ![i].telemetry = @ \cup
                             {[op |-> "recordToolCall", success |-> TRUE,
                               duration |-> 0, error |-> {}]}]
    /\ UNCHANGED <<dedupeCache, clock, approvals, wrapFrame>>

\* lines 638-646 and 670-672: execute has settled
Executed(i) ==
    /\ wcall[i].pc = "executing"
    /\ \E settled \in ToolOutcomes :
        wcall' = [wcall EXCEPT ![i].toolOutcome = {settled},
                               ![i].pc = AfterExecute(settled)]
    /\ UNCHANGED <<dedupeCache, clock, auditLog, approvals, wrapFrame>>

\* lines 648-663 and 674-692: the four records have been made
Recorded(i) ==
    /\ wcall[i].pc = "recording"
    /\ LET settled == Some(wcall[i].toolOutcome)
           duration == clock - wcall[i].start
       IN /\ \E written \in BOOLEAN :
               auditLog' = AuditAppend(auditLog,
                               [kind |-> "result", call |-> i,
                                success |-> OutcomeSuccess(settled)], written)
          /\ wcall' = [wcall EXCEPT ![i].pc = "settling",
                                    ![i].rateRecords = @ + 1,
                                    ![i].resultWrites = @ + 1,
                                    ![i].telemetry = @ \cup Telemetry(settled, duration)]
    /\ UNCHANGED <<dedupeCache, clock, approvals, wrapFrame>>

\* lines 669 and 698: the tool's result is returned, or its exception thrown
Settle(i) ==
    /\ wcall[i].pc = "settling"
    /\ LET settled == Some(wcall[i].toolOutcome) IN
        wcall' = [wcall EXCEPT
                     ![i].pc = IF settled.kind = "throw" THEN "threw" ELSE "returned",
                     ![i].returned = IF settled.kind = "throw" THEN {} ELSE {settled.value},
                     ![i].threw = IF settled.kind = "throw" THEN {settled.value} ELSE {}]
    /\ UNCHANGED <<dedupeCache, clock, auditLog, approvals, wrapFrame>>

\* the steps of one call
CallStep(i) ==
    \/ Invoke(i) \/ RateChecked(i) \/ RejectionAudited(i) \/ ApprovalRequested(i)
    \/ CallAudited(i) \/ Executed(i) \/ Recorded(i) \/ Settle(i)

WrapNext == \E i \in Calls : CallStep(i)

WrapSpec == WrapInit /\ [][WrapNext]_vars

(***************************************************************************)
(* One request (generateTextResponse, part_004 lines 340-435) together    *)
(* with the wrapped tools its model calls may invoke.                      *)
(***************************************************************************)

\* the model call in progress at a position of generateTextResponse
PhaseOf(position) ==
    CASE position = "start" -> "executor"
      [] position = "repair" -> "repair"
      [] position = "present" -> "presenter"
      [] OTHER -> "none"

\* every model call being given the tool set
ToolsOfAll(phase) == phase \in {"executor", "repair", "presenter"}

\* lines 362-372, 380-385, 428-433: `tools` (and stopWhen) is passed to the
\* executor's generateText only; the repair and the presenter calls have
\* model, system and messages
ToolsOf(phase) == phase = "executor"

\* the texts the two executor calls of a request may return: a well-formed
\* one, one without the header, one without the Actions section
RequestShapes ==
    { [header |-> TRUE, status |-> "done", drop |-> "none", full |-> FALSE],
      [header |-> FALSE, status |-> "done", drop |-> "none", full |-> FALSE],
      [header |-> TRUE, status |-> "blocked", drop |-> "actions", full |-> FALSE] }

\* the tool calls the model may make in a request
RequestCalls == {params \in WrapCalls : params.workspaceId = {} /\ params.input = InputA}

\* no wrapped tool is in flight
AllSettled == \A i \in Calls : wcall[i].pc \in {"idle", "returned", "threw"}

RequestInit ==
    /\ RetryIdle /\ CodecIdle
    /\ pc = "start"
    /\ needsBriefing \in BOOLEAN
    /\ execShape = {} /\ repairShape = {}
    /\ executorText = <<>> /\ repairText = <<>>
    /\ parseResult = {} /\ handoff = {} /\ usedRepair = FALSE
    /\ finalHandoff = {} /\ recorded = {} /\ presenterMessages = {}
    /\ calls = <<>> /\ thrown = ""
    /\ windowMinutes = {} /\ dedupeCache = <<>> /\ clock = 1000
    /\ ncalls = 0 /\ accepted = {} /\ lastCall = {}
    /\ allowlistByWorkspace = WrapAllowlist /\ gparams = {} /\ gdecision = {}
    /\ wcall = [i \in Calls |-> IdleCall]
    /\ auditLog = <<>>
    /\ approvals = {}

\* a step of a tool the model call in progress has invoked: generateText
\* runs the execute functions of the tool set it was given
ToolStep(i) ==
    /\ ToolsOf(PhaseOf(pc))
    /\ \/ \E params \in RequestCalls : InvokeWith(i, params, 0)
       \/ RateChecked(i) \/ RejectionAudited(i) \/ ApprovalRequested(i)
       \/ CallAudited(i) \/ Executed(i) \/ Recorded(i) \/ Settle(i)

\* line 362: generateText resolves after the tool calls of its steps have
\* settled
ExecutorReturns == AllSettled /\ RunExecutorOf(RequestShapes)

RepairReturns == AllSettled /\ RunRepairOf(RequestShapes)

PresenterReturns == AllSettled /\ Present

GenerateTextRejects == AllSettled /\ ModelFails

RequestNext ==
    \/ \E i \in Calls : ToolStep(i)
    \/ ExecutorReturns \/ ParseExecutor \/ RepairReturns \/ ParseRepair
    \/ Finalize \/ PresenterReturns \/ GenerateTextRejects

RequestSpec == RequestInit /\ [][RequestNext]_vars

(***************************************************************************)
(* tool_registry_execute (getAllTools, part_004 lines 742-779): call 1 is  *)
(* the registry tool, call 2 the target it runs.                           *)
(***************************************************************************)

RegistryExecute == <<"tool_registry_execute">>
RegistrySearch == <<"tool_registry_search">>
DeleteRepo == <<"github", "_", "delete", "_", "repo">>

\* a JSON string, as its tokens
Str(tokens) == [t |-> "str", v |-> tokens]

\* the string a name's tokens spell
RECURSIVE NameOf(_)
NameOf(tokens) == IF tokens = <<>> THEN "" ELSE Head(tokens) \o NameOf(Tail(tokens))

\* the tool registry: two tools are registered, and one of them has metadata
RegisteredTools == {CreateIssue, SearchIssues}

getTool(toolName) == IF toolName \in RegisteredTools THEN {toolName} ELSE {}

getToolMetadata(toolName) ==
    IF toolName = CreateIssue THEN {[integrationId |-> <<"github">>]} ELSE {}

\* the target run inside the registry tool's own interception
TargetCallAsRegistry(workspaceId, toolName, input) ==
    [workspaceId |-> workspaceId, toolName |-> RegistryExecute,
     integrationId |-> <<"tool_registry">>,
     input |-> IF input = {} THEN Obj(<<>>) ELSE Some(input)]

\* lines 764-773: the target is wrapped under its own name, with the
\* integration of its metadata or the part of the name before the first _,
\* and called with input ?? {} and the context of the registry call
TargetCall(workspaceId, toolName, input) ==
    LET metadata == getToolMetadata(toolName) IN
    [workspaceId |-> workspaceId, toolName |-> toolName,
     integrationId |-> IF metadata # {} THEN Some(metadata).integrationId
                       ELSE <<toolName[1]>>,
     input |-> IF input = {} THEN Obj(<<>>) ELSE Some(input)]

\* lines 753-762: what execute returns without running a tool ({} when it
\* goes on to the target; every registered tool has an execute function)
RegistryRefusal(toolName) ==
    IF toolName \in {RegistryExecute, RegistrySearch}
    THEN {createToolError(<<"tool_registry">>,
              "Cannot execute registry tools via registry execution.",
              [kind |-> {}, hint |-> {}, retryAfterSeconds |-> {}])}
    ELSE IF getTool(toolName) = {}
    THEN {createToolError(<<"tool_registry">>,
              "Tool \"" \o NameOf(toolName) \o "\" not found",
              [kind |-> {}, retryAfterSeconds |-> {},
               hint |-> {<<"Use tool_registry_search to discover available tools.">>}])}
    ELSE {}

\* the names the model may ask the registry tool to run
Targets == {CreateIssue, SearchIssues, RegistryExecute, RegistrySearch, DeleteRepo}

\* lines 745-748: the calls of tool_registry_execute, with and without input
RegistryCalls ==
    { [workspaceId |-> workspaceId, toolName |-> RegistryExecute,
       integrationId |-> <<"tool_registry">>,
       input |-> Obj(<< <<"toolName", Str(target)>> >> \o payload)] :
        workspaceId \in {{}, {"T1"}}, target \in Targets,
        payload \in {<<>>, << <<"input", InputA>> >>} }

\* the toolName and input properties of a call of the registry tool
TargetOf(call) == Some(Prop(Some(call.params).input, "toolName")).v
PayloadOf(call) == Prop(Some(call.params).input, "input")

RegistryInit ==
    /\ RetryIdle /\ CodecIdle /\ PipeIdle
    /\ windowMinutes = {} /\ dedupeCache = <<>> /\ clock = 1000
    /\ ncalls = 0 /\ accepted = {} /\ lastCall = {}
    /\ allowlistByWorkspace = WrapAllowlist /\ gparams = {} /\ gdecision = {}
    /\ wcall = [i \in Calls |-> IdleCall]
    /\ auditLog = <<>>
    /\ approvals = {}

\* the model calls tool_registry_execute
RegistryInvoked == \E params \in RegistryCalls : InvokeWith(1, params, 0)

\* the interception of the registry tool, before and after its execute
RegistryStep ==
    \/ RateChecked(1) \/ RejectionAudited(1) \/ ApprovalRequested(1)
    \/ CallAudited(1) \/ Recorded(1) \/ Settle(1)

\* lines 753-762: execute returns a tool error
RegistryRefused ==
    /\ wcall[1].pc = "executing"
    /\ \E refusal \in RegistryRefusal(TargetOf(wcall[1])) :
         LET settled == [kind |-> "value", value |-> refusal] IN
         wcall' = [wcall EXCEPT ![1].toolOutcome = {settled},
                                ![1].pc = AfterExecute(settled)]
    /\ UNCHANGED <<dedupeCache, clock, auditLog, approvals, wrapFrame>>

\* lines 764-773: the wrapped target is called
TargetInvoked ==
    /\ wcall[1].pc = "executing"
    /\ RegistryRefusal(TargetOf(wcall[1])) = {}
    /\ InvokeWith(2, TargetCall(Some(wcall[1].params).workspaceId,
                                TargetOf(wcall[1]), PayloadOf(wcall[1])), 0)

\* the interception of the target
TargetStep ==
    \/ RateChecked(2) \/ RejectionAudited(2) \/ ApprovalRequested(2)
    \/ CallAudited(2) \/ Executed(2) \/ Recorded(2) \/ Settle(2)

\* line 773: the registry tool's execute settles as the wrapped target did
TargetSettled ==
    /\ wcall[1].pc = "executing"
    /\ wcall[2].pc \in {"returned", "threw"}
    /\ LET settled == IF wcall[2].pc = "threw"
                      THEN [kind |-> "throw", value |-> Some(wcall[2].threw)]
                      ELSE [kind |-> "value", value |-> Some(wcall[2].returned)]
       IN wcall' = [wcall EXCEPT ![1].toolOutcome = {settled},
                                 ![1].pc = AfterExecute(settled)]
    /\ UNCHANGED <<dedupeCache, clock, auditLog, approvals, wrapFrame>>

RegistryNext ==
    \/ RegistryInvoked \/ RegistryStep \/ RegistryRefused
    \/ TargetInvoked \/ TargetStep \/ TargetSettled

RegistrySpec == RegistryInit /\ [][RegistryNext]_vars

(***************************************************************************)
(* Tool-call wrapper: claims                                               *)
(***************************************************************************)

\* the call was made and got past the duplicate check
PassedDuplicateCheck(i) ==
    wcall[i].pc # "idle" /\ wcall[i].rejectedBy \notin {"allowlist", "duplicate"}

\* a call of a dedupe-eligible tool that carries no override flag
Eligible(i) ==
    /\ Some(wcall[i].params).toolName = CreateIssue
    /\ Prop(Some(wcall[i].params).input, "force") = {}
    /\ Prop(Some(wcall[i].params).input, "allowDuplicate") = {}

SameTriple(i, j) == SameCall(Some(wcall[i].params), Some(wcall[j].params))

\* the same, an absent workspace being the workspace "global"
WorkspaceOf(i) ==
    IF Some(wcall[i].params).workspaceId = {} THEN "global"
    ELSE Some(Some(wcall[i].params).workspaceId)

SameTripleGlobal(i, j) ==
    /\ WorkspaceOf(i) = WorkspaceOf(j)
    /\ Some(wcall[i].params).toolName = Some(wcall[j].params).toolName
    /\ SameJson(Some(wcall[i].params).input, Some(wcall[j].params).input)

Apart(i, j) ==
    \/ wcall[i].start - wcall[j].start >= WindowMs
    \/ wcall[j].start - wcall[i].start >= WindowMs

Running(i) == wcall[i].pc \notin {"returned", "threw"}

AllowlistDenied(i) ==
    /\ wcall[i].params # {}
    /\ ~isToolAllowed(Some(wcall[i].params).workspaceId, Some(wcall[i].params).toolName,
                      {Some(wcall[i].params).integrationId}, allowlistByWorkspace).allowed

RateLimited(i) == \E rateCheck \in wcall[i].rateCheck : ~rateCheck.allowed

ApprovalRequired(i) == TRUE \in wcall[i].requiresApproval

Rejected(i) ==
    \/ AllowlistDenied(i) \/ wcall[i].rejectedBy = "duplicate"
    \/ RateLimited(i) \/ ApprovalRequired(i)

HintMentions(hint, word) == \E i \in 1 .. Len(hint) : hint[i] = word

\* C14: every rejection value the wrapper returns carries an errorType and a
\* hint, and the hint of the duplicate rejection names the override.
C14_RejectionShape ==
    \A i \in Calls :
        (wcall[i].pc = "returned" /\ wcall[i].rejectedBy # "") =>
            \A value \in wcall[i].returned :
                /\ value.errorType # {}
                /\ value.hint # {}
                /\ wcall[i].rejectedBy = "duplicate" =>
                       HintMentions(Some(value.hint), "force=true")

\* the places of the audit log that hold an entry of this kind of call i
EntriesOf(kind, i) ==
    {k \in 1 .. Len(auditLog) : auditLog[k].kind = kind /\ auditLog[k].call = i}

\* C15 (as claimed): every result entry of the audit log comes after a call
\* entry of the same call.
C15_AuditOrderAsClaimed ==
    \A i \in Calls :
        \A k \in EntriesOf("result", i) : \E m \in EntriesOf("call", i) : m < k

\* C15 (amended): the result entry of a call is written only after the write
\* of its call entry has completed, so a call entry in the log comes before
\* the result entry of the same call; only a call that the rate limiter
\* refused has its result entry written without the write of a call entry.
C15_AuditOrder ==
    \A i \in Calls :
        /\ EntriesOf("result", i) # {} => (RateLimited(i) \/ wcall[i].callAudited)
        /\ (\E record \in wcall[i].telemetry : record.op = "logToolResult")
               => wcall[i].callAudited
        /\ \A k \in EntriesOf("result", i) : \A m \in EntriesOf("call", i) : m < k
        /\ RateLimited(i) => (~wcall[i].callAudited /\ EntriesOf("call", i) = {})
        /\ Rejected(i) /\ ~RateLimited(i) =>
               (EntriesOf("call", i) = {} /\ EntriesOf("result", i) = {})

\* the two calls ran interleaved and each has its call entry before its
\* result entry
C15_Witness ==
    /\ Len(auditLog) = 4
    /\ auditLog[1].kind = "call" /\ auditLog[2].kind = "call"
    /\ auditLog[1].call # auditLog[2].call
    /\ auditLog[3].kind = "result" /\ auditLog[4].kind = "result"
    /\ auditLog[3].call = auditLog[2].call

ToolThrew(i) == \E settled \in wcall[i].toolOutcome : settled.kind = "throw"

\* the three records of a failed call
RecordedFailure(i) ==
    /\ \E record \in wcall[i].telemetry :
          record.op = "logToolResult" /\ ~record.success
    /\ \E record \in wcall[i].telemetry :
          /\ record.op = "recordOutcome" /\ ~record.success
          /\ record.duration >= 0 /\ record.duration <= clock - wcall[i].start
          /\ \E settled \in wcall[i].toolOutcome :
                record.error = {[type |-> {settled.value.name},
                                 message |-> settled.value.message]}
    /\ \E record \in wcall[i].telemetry : record.op = "recordUsage"

PassedGuardrails(i) ==
    \/ wcall[i].pc \in {"logToolCall", "executing", "recording", "settling"}
    \/ wcall[i].pc \in {"returned", "threw"} /\ wcall[i].rejectedBy = ""

StatusValueOf(line) == {LowerSeq(Trim(value)) : value \in StatusMatch(Trim(line))}

\* the four status values of the handoff
FourStatuses == {<<"done">>, <<"needs_info">>, <<"blocked">>, <<"planning">>}

\* the key of a header line, among the nine keys ({} if the line is no header)
KeyOf(line) ==
    IF StatusValueOf(line) # {} THEN {"status"}
    ELSE {IF normalizeSectionLabel(match[1]) \in DOMAIN SECTION_KEYS
          THEN SECTION_KEYS[normalizeSectionLabel(match[1])]
          ELSE normalizeSectionLabel(match[1])[1] :
              match \in {found \in SectionMatch(Trim(line)) :
                            \/ normalizeSectionLabel(found[1]) \in DOMAIN SECTION_KEYS
                            \/ normalizeSectionLabel(found[1])
                                   \in {<<"plan">>, <<"verification">>}}}

\* what the text holds after its header line: for every line its Status
\* value and its key, blank lines and the lines up to the header left out
Scanned(text) ==
    LET lines == SplitLines(text, <<>>)
        headerAt == FindHeader(lines, 1)
    IN [header |-> headerAt # 0,
        lines |-> IF headerAt = 0 THEN <<>>
                  ELSE SelectSeq([k \in 1 .. Len(lines) - headerAt |->
                                     [text |-> Trim(lines[headerAt + k]),
                                      status |-> StatusValueOf(lines[headerAt + k]),
                                      key |-> KeyOf(lines[headerAt + k])]],
                                 LAMBDA line : line.text # <<>>)]

SectionAppears(scanned, section) ==
    \E k \in 1 .. Len(scanned.lines) : scanned.lines[k].key = {section}

ValidStatusLine(scanned) ==
    \E k \in 1 .. Len(scanned.lines) : scanned.lines[k].status \cap FourStatuses # {}

\* the required sections whose header does not appear, in their order
RECURSIVE NotAppearing(_, _)
NotAppearing(scanned, required) ==
    IF required = <<>> THEN <<>>
    ELSE (IF SectionAppears(scanned, Head(required)) THEN <<>> ELSE <<Head(required)>>)
         \o NotAppearing(scanned, Tail(required))

\* C18: a Status line with one of the four values done, needs_info, blocked,
\* planning in any case sets the status to it and records no error; a Status
\* line with another value records an error, the result is not ok, and the
\* sections after it are still parsed.
C18_StatusValues ==
    \A r \in cresult :
        LET scanned == Scanned(ctext) IN
        scanned.header =>
            \A k \in 1 .. Len(scanned.lines) :
                LET value == scanned.lines[k].status IN
                /\ value \cap FourStatuses # {} =>
                      /\ Some(r.handoff).status = Some(value)[1]
                      /\ r.errors = <<>>
                /\ (value # {} /\ value \cap FourStatuses = {}) =>
                      /\ r.errors # <<>> /\ ~r.ok
                      /\ \A i \in 1 .. Len(REQUIRED_SECTIONS) :
                            SectionAppears(scanned, REQUIRED_SECTIONS[i])
                                <=> \A m \in 1 .. Len(r.missingFields) :
                                        r.missingFields[m] # REQUIRED_SECTIONS[i]

\* C19: the result is ok exactly when the header line is present, a valid
\* Status line is present, no error was recorded and the header of each of the
\* six required sections appears; without header line the result is not ok,
\* missingFields is [header] and there is no handoff; otherwise missingFields
\* holds status if there is no valid Status line, and the required sections
\* whose header did not appear.
C19_ParseOk ==
    \A r \in cresult :
        LET scanned == Scanned(ctext) IN
        IF ~scanned.header
        THEN ~r.ok /\ r.missingFields = <<"header">> /\ r.handoff = {}
        ELSE /\ r.ok <=> /\ ValidStatusLine(scanned)
                         /\ r.errors = <<>>
                         /\ NotAppearing(scanned, REQUIRED_SECTIONS) = <<>>
             /\ r.missingFields =
                    (IF ValidStatusLine(scanned) THEN <<>> ELSE <<"status">>)
                    \o NotAppearing(scanned, REQUIRED_SECTIONS)

\* what a line gives to its section: the inline value of a header, the text
\* of another line without its bullet; nothing when that is empty or none
GivenBy(line) ==
    LET given == IF line.key = {} THEN stripBullet(line.text)
                 ELSE IF line.key = {"status"} THEN <<>>
                 ELSE Trim(Some(SectionMatch(line.text))[2])
    IN IF given = <<>> \/ isNone(given) THEN <<>> ELSE <<given>>

\* the items of a section: what its header and the lines up to the next of
\* the nine headers give, in their order (current is the key of the last
\* header met)
RECURSIVE ItemsFrom(_, _, _, _)
ItemsFrom(section, lines, k, current) ==
    IF k > Len(lines) THEN <<>>
    ELSE LET governing == IF lines[k].key # {} THEN lines[k].key ELSE current
         IN (IF governing = {section} THEN GivenBy(lines[k]) ELSE <<>>)
            \o ItemsFrom(section, lines, k + 1, governing)

\* C20: with the nine keys recognised as headers, each line after a header
\* goes to the section of that header only: the items of every section of
\* the parsed handoff are the lines between its header and the next of the
\* nine headers, so none of them is a Plan or Verification line.
C20_SectionAttribution ==
    \A r \in cresult : \A parsed \in r.handoff :
        LET lines == Scanned(ctext).lines IN
        /\ \A section \in {"actions", "data", "errors", "missing"} :
              parsed[section] = ItemsFrom(section, lines, 1, {})
        /\ \A section \in {"followUp", "draft"} :
              parsed[section] = IF ItemsFrom(section, lines, 1, {}) = <<>> THEN {}
                                ELSE {JoinLines(ItemsFrom(section, lines, 1, {}))}

\* the input of the call has a truthy force or allowDuplicate flag
Flagged(call) ==
    \E params \in call.params :
        \E key \in {"force", "allowDuplicate"} :
            \E value \in Prop(params.input, key) : Truthy(value)

\* C26: a call whose input has a truthy force or allowDuplicate flag is
\* never rejected as a duplicate, and the step that makes the duplicate
\* check for the other calls leaves the dedupe cache as it was.
C26_OverrideFlag ==
    [][\A i \in Calls :
          (wcall[i].pc = "idle" /\ wcall'[i].pc # "idle" /\ Flagged(wcall'[i])) =>
              /\ dedupeCache' = dedupeCache
              /\ wcall'[i].rejectedBy # "duplicate"
              /\ wcall'[i].pc = "rateCheck"]_vars

\* a call with the allowDuplicate flag and a call of the same tool and input
\* without flag have both passed, and the cache holds the entry of one call
C26_Witness ==
    \E i, j \in Calls :
        /\ wcall[i].pc \notin {"idle", "rateCheck"} /\ Flagged(wcall[i])
        /\ Some(wcall[i].params).input = InputAAllow
        /\ wcall[j].pc \notin {"idle", "rateCheck"} /\ wcall[j].rejectedBy = ""
        /\ Some(wcall[j].params).input = InputA
        /\ Some(wcall[j].params).workspaceId = {}
        /\ Some(wcall[j].params).toolName = CreateIssue
        /\ wcall[i].start = wcall[j].start
        /\ Len(dedupeCache) = 1

C29_DuplicateImpliesExecution ==
    (\A i \in Calls : ~Running(i)) =>
        \A j \in Calls :
            wcall[j].rejectedBy = "duplicate" =>
                \E i \in Calls \ {j} :
                    /\ SameTripleGlobal(i, j)
                    /\ wcall[j].start - wcall[i].start < WindowMs
                    /\ wcall[i].ran = 1 /\ ~ToolThrew(i)

\* C28: every step that runs a tool operation, updates the dedupe cache,
\* requests an approval or otherwise moves a wrapped call or writes the
\* audit log is taken while the executor call is in progress, before the
\* executor's text is parsed and before the repair and presenter calls.
C28_ToolsOnlyWhileExecuting ==
    [][((\E i \in Calls : wcall'[i].ran # wcall[i].ran)
          \/ dedupeCache' # dedupeCache \/ approvals' # approvals
          \/ wcall' # wcall \/ auditLog' # auditLog) =>
             (pc = "start" /\ parseResult = {} /\ calls = <<>>)]_vars

\* a request that made the repair call and went on to the presenter after a
\* tool ran, the dedupe cache was written and an approval was requested
C28_Witness ==
    /\ pc = "threw" /\ calls = <<"executor", "repair">> /\ finalHandoff # {}
    /\ \E i \in Calls : wcall[i].ran = 1
    /\ dedupeCache # <<>>
    /\ approvals # {}

\* the workspace's allow-list (github_create*) does not cover the target
DeniedTarget(workspaceId, target) ==
    /\ workspaceId = {"T1"}
    /\ ~(Len(target) >= 3 /\ SubSeq(target, 1, 3) = <<"github", "_", "create">>)

\* C30: the target of tool_registry_execute runs as a wrapped call under its
\* own name and integration in the workspace of the registry call; it is
\* executed only when the allow-list admits it, the duplicate check (when it
\* applies), the rate limiter and the approval gate let it pass and its call
\* was sent to the audit log; the registry tool itself is never refused by
\* the allow-list; a registry name or an unknown name as target starts no
\* call and yields a tool error of integration tool_registry.
C30_RegistryGuarded ==
    LET registry == wcall[1]
        target == wcall[2]
    IN /\ registry.rejectedBy \notin {"allowlist", "duplicate"}
       /\ target.pc # "idle" =>
             /\ registry.ran = 1
             /\ Some(target.params).toolName = TargetOf(registry)
             /\ Some(target.params).toolName \in RegisteredTools
             /\ Some(target.params).integrationId = <<"github">>
             /\ Some(target.params).workspaceId = Some(registry.params).workspaceId
             /\ DeniedTarget(Some(target.params).workspaceId, TargetOf(registry)) =>
                   /\ target.rejectedBy = "allowlist" /\ target.ran = 0
                   /\ \A value \in target.returned :
                         value.error = "Tool not allowed for this workspace."
       /\ target.ran = 1 =>
             /\ ~DeniedTarget(Some(registry.params).workspaceId, TargetOf(registry))
             /\ Some(target.rateCheck).allowed
             /\ target.requiresApproval = {FALSE}
             /\ target.callAudited
             /\ target.rejectedBy = ""
             /\ (TargetOf(registry) = CreateIssue /\ ~Flagged(target)) =>
                    target.passedAt # {}
       /\ (registry.params # {} /\ TargetOf(registry) \notin RegisteredTools) =>
             /\ target = IdleCall
             /\ \A settled \in registry.toolOutcome :
                   /\ settled.kind = "value"
                   /\ isToolErrorResponse(settled.value)
                   /\ settled.value.integrationId = <<"tool_registry">>
                   /\ settled.value.error =
                         IF TargetOf(registry) = DeleteRepo
                         THEN "Tool \"github_delete_repo\" not found"
                         ELSE "Cannot execute registry tools via registry execution."
       /\ (registry.pc \in {"recording", "settling", "returned", "threw"}
             /\ registry.ran = 1 /\ target.pc # "idle") =>
             /\ target.pc \in {"returned", "threw"}
             /\ \A settled \in registry.toolOutcome :
                   IF target.pc = "threw"
                   THEN settled.kind = "throw" /\ target.threw = {settled.value}
                   ELSE settled.kind = "value" /\ target.returned = {settled.value}

\* in workspace T1 the registry tool was asked for github_search_issues: it
\* ran, the target was refused by the allow-list, and the refusal is what
\* the registry tool returned
C30_Witness ==
    /\ wcall[1].pc = "returned" /\ wcall[1].ran = 1
    /\ Some(wcall[1].params).workspaceId = {"T1"}
    /\ TargetOf(wcall[1]) = SearchIssues
    /\ wcall[2].rejectedBy = "allowlist" /\ wcall[2].ran = 0
    /\ wcall[1].returned = wcall[2].returned

====
